---- MODULE Spec2Model ----
(***************************************************************************)
(* pugl-ui: the widget registry, the widget tree with its stack layouters  *)
(* and the two-phase layout, modelled from src/src/ui.rs,                  *)
(* src/src/widget.rs, src/src/layout/stacklayout.rs and                    *)
(* src/src/layout/layoutwidget.rs.                                         *)
(*                                                                         *)
(* Lengths are f64 in the source.  The model computes with exact rationals *)
(* <<numerator, denominator>>, so that the division of the slack among the *)
(* expanding widgets is not rounded.                                       *)
(***************************************************************************)
EXTENDS Integers, Sequences, FiniteSets, TLC

VARIABLES
    widgets,          \* UI::widgets: Id -> widget (Vec<Box<dyn Widget>>)
    nodes,            \* the WidgetNode of every widget: layouter, children
    unlayouted,       \* keys of UI::unlayouted_nodes
    overflow_checks,  \* build profile: "checked" or "wrapping" integer overflow;
                      \* "unobserved" until a subtraction first overflows
    panic,            \* "none", or the message of the panic that ended the run
    packed,           \* history: the arguments of the pack_to_layout of a widget
    phase1,           \* history: the sizes phase 1 computed in the do_layout that has
                      \* just run; <<>> when no layout was run since the last change
    divisors,         \* history: <<stack, count>> for every division of a slack by a
                      \* candidate count in the do_layout that has just run
    relaid,           \* history: the last call was a do_layout that followed a layout
                      \* pass with no change in between
    view,             \* the window of the host: the size hints set, whether it
                      \* has sent a resize, the timers that run, as <<id, timeout>>,
                      \* and, as history, the calls that the last next_event or
                      \* timer_event made to the host
    drag_ongoing,     \* UI::drag_ongoing
    widget_under_pointer,  \* UI::widget_under_pointer
    focused_widget,   \* UI::focused_widget
    have_focus,       \* UI::have_focus: the window has the keyboard focus
    dispatch          \* history: the event UI::event handled last (<<>> if the
                      \* last call of the router was not an event), the calls the
                      \* router made on widgets, in order, and the owner of the drag in
                      \* progress: the widget under the pointer after the press of
                      \* button 1 that started it

\* the fields of the UI that route events
router == <<drag_ongoing, widget_under_pointer, focused_widget, have_focus, dispatch>>

vars ==
    <<widgets, nodes, unlayouted, overflow_checks, panic, packed, phase1, divisors, relaid,
      view, drag_ongoing, widget_under_pointer, focused_widget, have_focus, dispatch>>

-----------------------------------------------------------------------------
(* Bounds of the model *)

MaxWidgets == 3

MaxPadding == 1

MaxResize == 9

MaxPending == 1

UsizeBits == 12

\* the widgets beside the root that the application of SpecEvents registers
MaxRouted == 2

\* the number of widgets beyond which the scan of the focus cycle is no
\* longer counted
MaxScan == 8

-----------------------------------------------------------------------------
(* Rational arithmetic standing for f64 *)

RECURSIVE GCD(_, _)
GCD(a, b) == IF b = 0 THEN a ELSE GCD(b, a % b)

Abs(n) == IF n < 0 THEN -n ELSE n

Norm(n, d) == LET g == GCD(Abs(n), d) IN <<n \div g, d \div g>>

R(n) == <<n, 1>>

RAdd(a, b) == Norm(a[1] * b[2] + b[1] * a[2], a[2] * b[2])

RSub(a, b) == Norm(a[1] * b[2] - b[1] * a[2], a[2] * b[2])

RMul(a, b) == Norm(a[1] * b[1], a[2] * b[2])

RDiv(a, n) == Norm(a[1], a[2] * n)

RGt(a, b) == a[1] * b[2] > b[1] * a[2]

RGe(a, b) == a[1] * b[2] >= b[1] * a[2]

Zero == R(0)

RECURSIVE RSum(_)
RSum(s) == IF s = <<>> THEN Zero ELSE RAdd(Head(s), RSum(Tail(s)))

-----------------------------------------------------------------------------
(* Widgets *)

Layouters == {"HorizontalLayouter", "VerticalLayouter"}

Targets == {"Front", "Back"}

\* The widget types an application registers with new_widget: what their
\* min_size(), width_expandable() and height_expandable() return.
WidgetKinds == {"NotExpandable", "WidthExpandable", "HeightExpandable",
                "BothExpandable", "Unsized", "Filler", "Focusable"}

min_size(kind) ==
    CASE kind = "NotExpandable"    -> <<R(3), R(2)>>
      [] kind = "Focusable"        -> <<R(3), R(2)>>
      [] kind = "WidthExpandable"  -> <<R(1), R(2)>>
      [] kind = "HeightExpandable" -> <<R(2), R(1)>>
      [] kind = "BothExpandable"   -> <<R(2), R(1)>>
      [] OTHER                     -> <<Zero, Zero>>

kind_width_expandable(kind) == kind \in {"WidthExpandable", "BothExpandable", "Filler"}

kind_height_expandable(kind) == kind \in {"HeightExpandable", "BothExpandable", "Filler"}

\* what takes_focus() of a widget of the kind returns
kind_takes_focus(kind) == kind = "Focusable"

DefaultLayout == [pos |-> <<Zero, Zero>>, size |-> <<Zero, Zero>>]

NewWidgetValue(kind) ==
    [type |-> kind,
     min |-> min_size(kind),
     width_expandable |-> kind_width_expandable(kind),
     height_expandable |-> kind_height_expandable(kind),
     layout |-> DefaultLayout,
     has_focus |-> FALSE,
     needs_repaint |-> FALSE,
     hovered |-> FALSE,
     reminder_request |-> <<>>]

RootWidgetValue == NewWidgetValue("RootWidget")

\* LayoutWidget::default()
LayoutWidgetDefault ==
    NewWidgetValue("LayoutWidget") @@ [width_locked |-> FALSE, height_locked |-> FALSE]

\* L::expandable()
expandable(L) == IF L = "HorizontalLayouter" THEN <<TRUE, FALSE>> ELSE <<FALSE, TRUE>>

SpacerNew(e) ==
    [type |-> "Spacer",
     min |-> <<Zero, Zero>>,
     width_expandable |-> e[1],
     height_expandable |-> e[2],
     layout |-> DefaultLayout,
     has_focus |-> FALSE,
     needs_repaint |-> FALSE,
     hovered |-> FALSE,
     reminder_request |-> <<>>]

\* StackLayoutData::default()
DefaultPadding == 0

DefaultSpacing == 5

new_leaf == [layouter |-> "none", padding |-> R(DefaultPadding),
             spacing |-> R(DefaultSpacing), subnodes |-> <<>>, children |-> <<>>]

new_node(L) == [new_leaf EXCEPT !.layouter = L]

Ids == DOMAIN widgets

NotPacked == [p |-> -1, L |-> "none"]

-----------------------------------------------------------------------------
(* The widget tree *)

RECURSIVE search(_, _, _), search_children(_, _, _, _)
search(n, path, id) ==
    IF n = id THEN <<path, TRUE>> ELSE search_children(n, 1, path, id)

search_children(n, i, path, id) ==
    IF i > Len(nodes[n].children)
    THEN <<path, FALSE>>
    ELSE LET r == search(nodes[n].children[i], Append(path, i - 1), id)
         IN  IF r[2] THEN r
             ELSE search_children(n, i + 1, SubSeq(r[1], 1, Len(r[1]) - 1), id)

RECURSIVE get_node_by_path(_, _)
get_node_by_path(n, path) ==
    IF path = <<>> THEN n
    ELSE get_node_by_path(nodes[n].children[Head(path) + 1], Tail(path))

\* UI::find_node, looking the id up in the pending table `unl`
find_node(unl, id) ==
    IF id \in unl THEN id
    ELSE get_node_by_path(0, search(0, <<>>, id)[1])

\* a pack that ignores the target and always pushes to the back
StackPackAlwaysBack(subnodes, subnode_id, target) == Append(subnodes, subnode_id)

\* StackLayoutData::pack
StackPack(subnodes, subnode_id, target) ==
    IF target = "Back" THEN Append(subnodes, subnode_id)
    ELSE <<subnode_id>> \o subnodes

\* WidgetNode::layouter_impl::<L>: the panic it ends in, or "none"
layouter_impl(node, L) ==
    IF node.layouter = "none" THEN "::pack(), no layouter found"
    ELSE IF node.layouter # L THEN "downcast of layouter failed"
    ELSE "none"

\* a lookup that counts the slots from 1
position_from_one(node, widget) ==
    IF \E i \in 1..Len(node.children) : node.children[i] = widget
    THEN CHOOSE i \in 1..Len(node.children) :
             /\ node.children[i] = widget
             /\ \A j \in 1..(i - 1) : node.children[j] # widget
    ELSE -1

\* the slot of `widget` in the children of `node`, 0-based, or -1
position(node, widget) ==
    IF \E i \in 1..Len(node.children) : node.children[i] = widget
    THEN (CHOOSE i \in 1..Len(node.children) :
              /\ node.children[i] = widget
              /\ \A j \in 1..(i - 1) : node.children[j] # widget) - 1
    ELSE -1

\* WidgetNode::pack: the node after it, and the panic it ends in
NodePack(node, widget, L, target) ==
    LET subnode_id == position(node, widget)
        failure == layouter_impl(node, L)
    IN  IF subnode_id = -1 THEN [node |-> node, panic |-> "none"]
        ELSE IF failure # "none" THEN [node |-> node, panic |-> failure]
        ELSE [node |-> [node EXCEPT !.subnodes = StackPack(@, subnode_id, target)],
              panic |-> "none"]

-----------------------------------------------------------------------------
(* Registration and packing *)

Init ==
    /\ widgets = (0 :> RootWidgetValue)
    /\ nodes = (0 :> new_node("VerticalLayouter"))
    /\ unlayouted = {}
    /\ overflow_checks = "unobserved"
    /\ panic = "none"
    /\ packed = (0 :> NotPacked)
    /\ phase1 = <<>>
    /\ divisors = {}
    /\ relaid = FALSE
    /\ view = [default_size |-> <<>>, min_size |-> <<>>, resized |-> FALSE,
               timers |-> {}, calls |-> <<>>]
    /\ drag_ongoing = FALSE
    /\ widget_under_pointer = 0
    /\ focused_widget = 0
    /\ have_focus = FALSE
    /\ dispatch = [ev |-> <<>>, calls |-> <<>>, owner |-> <<>>]

Running == panic = "none"

CanRegister == Cardinality(Ids) <= MaxWidgets

push_widget(w, node) ==
    LET id == Cardinality(Ids)
    IN  /\ widgets' = widgets @@ (id :> w)
        /\ nodes' = nodes @@ (id :> node)
        /\ packed' = packed @@ (id :> NotPacked)
        /\ phase1' = <<>>
        /\ divisors' = {}
        /\ relaid' = FALSE
        /\ UNCHANGED router
        /\ UNCHANGED view
        /\ unlayouted' = unlayouted \cup {id}

new_widget(kind) ==
    /\ Running
    /\ CanRegister
    /\ push_widget(NewWidgetValue(kind), new_leaf)
    /\ UNCHANGED <<overflow_checks, panic>>

new_layouter(L) ==
    /\ Running
    /\ CanRegister
    /\ push_widget(LayoutWidgetDefault, new_node(L))
    /\ UNCHANGED <<overflow_checks, panic>>

\* a pack_to_layout that looks the child up in the pending table without
\* taking it out
PackResultKeepsPending(ns, unl, id, p, L, target) ==
    IF id \notin unl
    THEN [nodes |-> ns, unlayouted |-> unl, panic |-> "widget already layouted?"]
    ELSE LET n == find_node(unl, p)
             pushed == [ns[n] EXCEPT !.children = Append(@, id)]
             res == NodePack(pushed, id, L, target)
         IN  [nodes |-> [ns EXCEPT ![n] = res.node],
              unlayouted |-> unl,
              panic |-> res.panic]

\* a pack_to_layout that appends the child to the parent before it finds that
\* the child is not pending
PackResultPushesFirst(ns, unl, id, p, L, target) ==
    LET unl2 == unl \ {id}
        n == find_node(unl2, p)
        pushed == [ns[n] EXCEPT !.children = Append(@, id)]
        res == NodePack(pushed, id, L, target)
    IN  IF id \notin unl
        THEN [nodes |-> [ns EXCEPT ![n] = pushed], unlayouted |-> unl,
              panic |-> "widget already layouted?"]
        ELSE [nodes |-> [ns EXCEPT ![n] = res.node],
              unlayouted |-> unl2,
              panic |-> res.panic]

\* The body of pack_to_layout on the registry `ws`, tree `ns` and pending
\* table `unl`: the tree, the pending table and the panic after it.
PackResult(ns, unl, id, p, L, target) ==
    IF id \notin unl
    THEN [nodes |-> ns, unlayouted |-> unl, panic |-> "widget already layouted?"]
    ELSE LET unl2 == unl \ {id}
             n == find_node(unl2, p)
             pushed == [ns[n] EXCEPT !.children = Append(@, id)]
             res == NodePack(pushed, id, L, target)
         IN  [nodes |-> [ns EXCEPT ![n] = res.node],
              unlayouted |-> unl2,
              panic |-> res.panic]

pack_to_layout(id, p, L, target) ==
    /\ Running
    /\ LET res == PackResult(nodes, unlayouted, id, p, L, target)
       IN  /\ nodes' = res.nodes
           /\ unlayouted' = res.unlayouted
           /\ panic' = res.panic
           /\ packed' = IF id \in unlayouted
                        THEN [packed EXCEPT ![id] = [p |-> p, L |-> L]]
                        ELSE packed
    /\ phase1' = <<>>
    /\ divisors' = {}
    /\ relaid' = FALSE
    /\ UNCHANGED router
    /\ UNCHANGED view
    /\ UNCHANGED <<widgets, overflow_checks>>

-----------------------------------------------------------------------------
(* Layouter parameters: ui.layouter(handle).set_padding(v) / .set_spacing(v) *)

\* UI::layouter followed by a setter of the implementor
layouter_set(p, L, field, v) ==
    /\ Running
    /\ LET n == find_node(unlayouted, p)
           failure == layouter_impl(nodes[n], L)
       IN  /\ panic' = failure
           /\ nodes' = IF failure # "none" THEN nodes
                       ELSE IF field = "padding" THEN [nodes EXCEPT ![n].padding = R(v)]
                       ELSE [nodes EXCEPT ![n].spacing = R(v)]
    /\ phase1' = <<>>
    /\ divisors' = {}
    /\ relaid' = FALSE
    /\ UNCHANGED router
    /\ UNCHANGED view
    /\ UNCHANGED <<widgets, unlayouted, overflow_checks, packed>>

set_padding(p, L, v) == layouter_set(p, L, "padding", v)

set_spacing(p, L, v) == layouter_set(p, L, "spacing", v)

\* ui.widget(handle.widget()).lock_width() / .lock_height()
lock(p, field) ==
    /\ Running
    /\ widgets[p].type = "LayoutWidget"
    /\ widgets' = IF field = "width" THEN [widgets EXCEPT ![p].width_locked = TRUE]
                  ELSE [widgets EXCEPT ![p].height_locked = TRUE]
    /\ phase1' = <<>>
    /\ divisors' = {}
    /\ relaid' = FALSE
    /\ UNCHANGED router
    /\ UNCHANGED view
    /\ UNCHANGED <<nodes, unlayouted, overflow_checks, panic, packed>>

lock_width(p) == lock(p, "width")

lock_height(p) == lock(p, "height")

-----------------------------------------------------------------------------
(* Stack layout: the axis trait LengthCrossExpander, E is the layouter kind *)

length(E, size) == IF E = "HorizontalLayouter" THEN size[1] ELSE size[2]

cross(E, size) == IF E = "HorizontalLayouter" THEN size[2] ELSE size[1]

real_size(E, len, crs) == IF E = "HorizontalLayouter" THEN <<len, crs>> ELSE <<crs, len>>

real_coord(E, len_pos, crs) == IF E = "HorizontalLayouter" THEN <<len_pos, crs>> ELSE <<crs, len_pos>>

len_cross_pos(E, pos) == IF E = "HorizontalLayouter" THEN <<pos[1], pos[2]>> ELSE <<pos[2], pos[1]>>

length_expandable(E, w) ==
    IF E = "HorizontalLayouter" THEN w.width_expandable ELSE w.height_expandable

cross_expandable(E, w) ==
    IF E = "HorizontalLayouter" THEN w.height_expandable ELSE w.width_expandable

\* Widget::sized_width / sized_height, overridden by LayoutWidget
sized_length(E, w) ==
    IF w.type = "LayoutWidget" THEN TRUE ELSE RGt(length(E, w.min), Zero)

\* E::expand_length
expand_length(E, w, amount) ==
    IF length_expandable(E, w)
    THEN [w EXCEPT !.layout.size =
              real_size(E, RAdd(length(E, @), amount), cross(E, @))]
    ELSE w

\* a cross-axis pass that sets the cross size of every child, expandable or not
set_cross_always(E, w, value) ==
    [w EXCEPT !.layout.size = real_size(E, length(E, @), value)]

\* E::set_cross
set_cross(E, w, value) ==
    IF cross_expandable(E, w)
    THEN [w EXCEPT !.layout.size = real_size(E, length(E, @), value)]
    ELSE w

\* the widget ids of the children of node n in the order of its layouter
StackIds(ns, n) == [k \in 1..Len(ns[n].subnodes) |-> ns[n].children[ns[n].subnodes[k] + 1]]

-----------------------------------------------------------------------------
(* Phase 1 *)

\* a phase 1 that starts from the size the widget has
kept_size(w) == w.layout.size

\* `let size = wgt.min_size(); wgt.set_size(&size);`
leaf_size(w) == w.min

RECURSIVE calc_widget_sizes(_, _), do_calc_size(_, _, _, _, _)
\* WidgetNode::calc_widget_sizes: the registry after it; the size it returns
\* is the size it has stored in the node's widget
calc_widget_sizes(n, ws) ==
    IF nodes[n].children = <<>>
    THEN [ws EXCEPT ![n].layout.size = leaf_size(ws[n])]
    ELSE do_calc_size(n, 1, ws, nodes[n].padding, Zero)

\* StackLayouterImpl::do_calc_size from the k-th subnode on
do_calc_size(n, k, ws, needed_length, needed_cross) ==
    LET E == nodes[n].layouter
        ids == StackIds(nodes, n)
    IN  IF k > Len(ids)
        THEN [ws EXCEPT ![n].layout.size =
                 real_size(E,
                           RAdd(needed_length, RSub(nodes[n].padding, nodes[n].spacing)),
                           RAdd(needed_cross, RMul(R(2), nodes[n].padding)))]
        ELSE LET ws2 == calc_widget_sizes(ids[k], ws)
                 size == ws2[ids[k]].layout.size
                 len == RAdd(needed_length, length(E, size))
                 crs == IF RGt(cross(E, size), needed_cross) THEN cross(E, size)
                        ELSE needed_cross
             IN  do_calc_size(n, k + 1, ws2,
                              IF sized_length(E, ws2[ids[k]])
                              THEN RAdd(len, nodes[n].spacing) ELSE len,
                              crs)

-----------------------------------------------------------------------------
(* The aggregation of expandability *)

\* a set_expandable that takes no notice of the locks
set_expandable_unlocked(w, we, he) ==
    [w EXCEPT !.width_expandable = we, !.height_expandable = he]

\* LayoutWidget::set_expandable
set_expandable(w, we, he) ==
    [w EXCEPT !.width_expandable = we /\ ~w.width_locked,
              !.height_expandable = he /\ ~w.height_locked]

\* an aggregation in which only the child visited last counts
last_expandable(e, exp) == e

\* `width_exp = we || width_exp;`, `height_exp = he || height_exp;`
any_expandable(e, exp) == e \/ exp

RECURSIVE detect_expandables(_, _), detect_children(_, _, _, _, _)
\* WidgetNode::detect_expandables: the registry after it and the pair it returns
detect_expandables(n, ws) ==
    IF nodes[n].children = <<>>
    THEN [ws |-> ws, we |-> ws[n].width_expandable, he |-> ws[n].height_expandable]
    ELSE detect_children(n, 1, ws, FALSE, FALSE)

detect_children(n, i, ws, width_exp, height_exp) ==
    IF i > Len(nodes[n].children)
    THEN [ws |-> IF n # 0 THEN [ws EXCEPT ![n] = set_expandable(@, width_exp, height_exp)]
                 ELSE ws,
          we |-> width_exp, he |-> height_exp]
    ELSE LET r == detect_expandables(nodes[n].children[i], ws)
         IN  detect_children(n, i + 1, r.ws, any_expandable(r.we, width_exp),
                             any_expandable(r.he, height_exp))

-----------------------------------------------------------------------------
(* Phase 2 *)

\* usize::MAX, at the width the model keeps for the machine word
UsizeMax == 2 ^ UsizeBits - 1

OverflowPanic == "attempt to subtract with overflow"

count_sized(n, ws) ==
    Cardinality({k \in 1..Len(nodes[n].subnodes) :
                    sized_length(nodes[n].layouter, ws[StackIds(nodes, n)[k]])})

count_spacers(n, ws) ==
    Cardinality({k \in 1..Len(nodes[n].subnodes) :
                    ws[StackIds(nodes, n)[k]].type = "Spacer"})

count_expandables(n, ws) ==
    Cardinality({k \in 1..Len(nodes[n].subnodes) :
                    length_expandable(nodes[n].layouter, ws[StackIds(nodes, n)[k]])})

\* sized_widgets - 1 on usize
minus_one(sized_widgets) == IF sized_widgets = 0 THEN UsizeMax ELSE sized_widgets - 1

\* LayoutApplyer::expandable_length
expandable_length(n, ws, size_avail) ==
    LET E == nodes[n].layouter
        ids == StackIds(nodes, n)
        needed_spacing == RMul(nodes[n].spacing, R(minus_one(count_sized(n, ws))))
        available_length == RSub(RSub(length(E, size_avail), needed_spacing),
                                 RMul(R(2), nodes[n].padding))
        natural_length == RSum([k \in 1..Len(ids) |-> length(E, ws[ids[k]].layout.size)])
    IN  RSub(available_length, natural_length)

\* LayoutApplyer::apply_cross
apply_cross(n, ws, size_avail) ==
    LET E == nodes[n].layouter
        avail == RSub(cross(E, size_avail), RMul(R(2), nodes[n].padding))
        stack == {StackIds(nodes, n)[k] : k \in 1..Len(nodes[n].subnodes)}
    IN  [id \in DOMAIN ws |-> IF id \in stack THEN set_cross(E, ws[id], avail) ELSE ws[id]]

\* an expansion that goes on to divide whatever the count is
always_candidates(count) == FALSE

\* `if spacers == 0 { return false }`, `if expandable_widgets == 0 { return; }`
no_candidates(count) == count = 0

\* LayoutApplyer::expand_spacers: the registry after it, what it returns and
\* the divisions it made
expand_spacers(n, ws, size_avail) ==
    LET E == nodes[n].layouter
        spacers == count_spacers(n, ws)
        expand_each == RDiv(expandable_length(n, ws, size_avail), spacers)
        stack == {StackIds(nodes, n)[k] : k \in 1..Len(nodes[n].subnodes)}
    IN  IF no_candidates(spacers)
        THEN [ws |-> ws, expanded |-> FALSE, divisors |-> {}]
        ELSE [ws |-> [id \in DOMAIN ws |->
                         IF id \in stack /\ ws[id].type = "Spacer"
                         THEN expand_length(E, ws[id], expand_each) ELSE ws[id]],
              expanded |-> TRUE,
              divisors |-> {<<n, spacers>>}]

\* LayoutApplyer::expand_expandable_widgets: the registry after it and the
\* divisions it made
expand_expandable_widgets(n, ws, size_avail) ==
    LET E == nodes[n].layouter
        expandable_widgets == count_expandables(n, ws)
        expand_each == RDiv(expandable_length(n, ws, size_avail), expandable_widgets)
        stack == {StackIds(nodes, n)[k] : k \in 1..Len(nodes[n].subnodes)}
    IN  IF no_candidates(expandable_widgets)
        THEN [ws |-> ws, divisors |-> {}]
        ELSE [ws |-> [id \in DOMAIN ws |->
                         IF id \in stack /\ ws[id].type # "Spacer"
                         THEN expand_length(E, ws[id], expand_each) ELSE ws[id]],
              divisors |-> {<<n, expandable_widgets>>}]

\* the build profiles a run that has shown `observed` can be of
Profiles(observed) ==
    IF observed = "unobserved" THEN {"checked", "wrapping"} ELSE {observed}

\* `if !applyer.expand_spacers() { applyer.expand_expandable_widgets(); }`
unless_expanded(n, crossed, size_avail, spaced) ==
    IF ~spaced.expanded
    THEN expand_expandable_widgets(n, crossed, size_avail)
    ELSE [ws |-> spaced.ws, divisors |-> spaced.divisors]

RECURSIVE apply_sizes(_, _, _, _), apply_positions(_, _, _, _, _, _, _, _, _)
RECURSIVE do_apply_layouts(_, _, _, _, _), expanded_layouts(_, _, _, _, _)
\* WidgetNode::apply_sizes with StackLayouterImpl::do_apply_layouts in a build
\* of the given profile: the registry after it, the panic it ended in,
\* whether sized_widgets - 1 overflowed, and the divisions made
apply_sizes(n, ws, orig_pos, profile) ==
    IF nodes[n].layouter = "none"
    THEN [ws |-> ws, panic |-> "none", overflowed |-> FALSE, divisors |-> {}]
    ELSE do_apply_layouts(n, apply_cross(n, ws, ws[n].layout.size), orig_pos,
                          ws[n].layout.size, profile)

\* StackLayouterImpl::do_apply_layouts after apply_cross
do_apply_layouts(n, crossed, orig_pos, size_avail, profile) ==
    expanded_layouts(n, crossed, orig_pos, profile,
                     unless_expanded(n, crossed, size_avail,
                                     expand_spacers(n, crossed, size_avail)))

\* StackLayouterImpl::do_apply_layouts after the expansion
expanded_layouts(n, crossed, orig_pos, profile, expanded) ==
    LET \* expandable_length was called, with no sized widget in the stack
        overflows == expanded.divisors # {} /\ count_sized(n, crossed) = 0
        lc == len_cross_pos(nodes[n].layouter, orig_pos)
    IN  IF overflows /\ profile = "checked"
        THEN [ws |-> crossed, panic |-> OverflowPanic, overflowed |-> TRUE,
              divisors |-> {}]
        ELSE apply_positions(n, 1, expanded.ws, RAdd(lc[1], nodes[n].padding), lc[2],
                             Zero, profile, overflows, expanded.divisors)

\* a walk that keeps the pending gap over a widget that is not sized
spacing_kept(sized, spacing) == spacing

\* the gap pending before a widget: `if !E::sized_length(widget) { spacing = 0.0; }`
spacing_before(sized, spacing) == IF sized THEN spacing ELSE Zero

\* LayoutApplyer::apply_positions from the k-th subnode on
apply_positions(n, k, ws, len_pos, crs, spacing, profile, overflowed, divs) ==
    LET E == nodes[n].layouter
        ids == StackIds(nodes, n)
    IN  IF k > Len(ids)
        THEN [ws |-> ws, panic |-> "none", overflowed |-> overflowed, divisors |-> divs]
        ELSE LET sized == sized_length(E, ws[ids[k]])
                 at == RAdd(len_pos, spacing_before(sized, spacing))
                 pos == real_coord(E, at, RAdd(crs, nodes[n].padding))
                 placed == [ws EXCEPT ![ids[k]].layout.pos = pos]
                 len == length(E, placed[ids[k]].layout.size)
                 sub == apply_sizes(ids[k], placed, pos, profile)
             IN  IF sub.panic # "none" THEN sub
                 ELSE apply_positions(n, k + 1, sub.ws, RAdd(at, len), crs,
                                      IF sized THEN nodes[n].spacing
                                      ELSE spacing_before(sized, spacing),
                                      profile, overflowed \/ sub.overflowed,
                                      divs \cup sub.divisors)

-----------------------------------------------------------------------------
(* do_layout and resize *)

\* the size do_layout gives the root: the one it had, if that is larger on an
\* axis than the one phase 1 computed
new_size(orig_size, size) ==
    IF RGt(orig_size[1], size[1]) \/ RGt(orig_size[2], size[2]) THEN orig_size ELSE size

\* do_layout after phase 2
applied_layout(calced, size, applied) ==
    [calced |-> calced,
     ws |-> IF applied.panic # "none" THEN applied.ws
            ELSE [applied.ws EXCEPT ![0].layout = [pos |-> <<Zero, Zero>>, size |-> size]],
     panic |-> applied.panic,
     overflowed |-> applied.overflowed,
     divisors |-> applied.divisors]

\* do_layout after phase 1
sized_layout(orig_size, calced, profile) ==
    applied_layout(calced, new_size(orig_size, calced[0].layout.size),
                   apply_sizes(0, [calced EXCEPT ![0].layout.size =
                                       new_size(orig_size, calced[0].layout.size)],
                               <<Zero, Zero>>, profile))

\* UI::do_layout on the registry ws: the registry after phase 1, the registry
\* at the end and the panic it ended in
LayoutResult(ws, profile) ==
    sized_layout(ws[0].layout.size, calc_widget_sizes(0, detect_expandables(0, ws).ws),
                 profile)

LayoutDone(res, profile) ==
    /\ widgets' = res.ws
    /\ panic' = res.panic
    /\ phase1' = [id \in DOMAIN res.calced |-> res.calced[id].layout.size]
    /\ divisors' = res.divisors
    /\ overflow_checks' = profile
    /\ UNCHANGED <<nodes, unlayouted, packed>>

\* do_layout in the build profile of the run, which shows only if a subtraction
\* overflows
LayoutProfiles(ws, wrapping) ==
    IF ~wrapping.overflowed THEN LayoutDone(wrapping, overflow_checks)
    ELSE \E profile \in Profiles(overflow_checks) :
             LayoutDone(IF profile = "wrapping" THEN wrapping
                        ELSE LayoutResult(ws, profile), profile)

LayoutStep(ws) == LayoutProfiles(ws, LayoutResult(ws, "wrapping"))

do_layout ==
    /\ Running
    /\ LayoutStep(widgets)
    /\ relaid' = (phase1 # <<>>)
    /\ UNCHANGED router
    /\ UNCHANGED view

\* UI::resize with scale_factor 1
resize(size) ==
    /\ Running
    /\ LayoutStep([widgets EXCEPT ![0].layout.size = size])
    /\ relaid' = FALSE
    /\ UNCHANGED router
    /\ view' = [view EXCEPT !.resized = TRUE]

-----------------------------------------------------------------------------
(* fit_window_size and fit_window_min_size *)

\* a check that looks at the width only
zero_width(size) == size[1] = Zero

\* `size.h * size.w == 0.0`
zero_area(size) == RMul(size[2], size[1]) = Zero

\* `as i32` of a length
as_i32(r) == IF r[1] >= 0 THEN r[1] \div r[2] ELSE -((-r[1]) \div r[2])

FitPanic(hint) ==
    IF hint = "default_size"
    THEN "Root window size zero. Have you forgotten ui::UI::do_layout()?"
    ELSE "Minimal root size zero. Have you forgotten ui::UI::do_layout()?"

\* UI::fit_window_size (hint "default_size") and UI::fit_window_min_size (hint
\* "min_size"), with scale_factor 1
fit_window(hint) ==
    /\ Running
    /\ LET size == widgets[0].layout.size
       IN  IF zero_area(size)
           THEN /\ panic' = FitPanic(hint)
                /\ UNCHANGED view
           ELSE /\ view' = IF hint = "default_size"
                           THEN [view EXCEPT !.default_size = <<as_i32(size[1]), as_i32(size[2])>>]
                           ELSE [view EXCEPT !.min_size = <<as_i32(size[1]), as_i32(size[2])>>]
                /\ UNCHANGED panic
    /\ relaid' = FALSE
    /\ UNCHANGED router
    /\ UNCHANGED <<widgets, nodes, unlayouted, overflow_checks, packed, phase1, divisors>>

fit_window_size == fit_window("default_size")

fit_window_min_size == fit_window("min_size")

-----------------------------------------------------------------------------
(* add_spacer *)

add_spacer(p, L, target) ==
    /\ Running
    /\ CanRegister
    /\ widgets[p].type = "LayoutWidget"
    /\ LET id == Cardinality(Ids)
           ns == nodes @@ (id :> new_leaf)
           res == PackResult(ns, unlayouted \cup {id}, id, p, L, target)
       IN  /\ widgets' = widgets @@ (id :> SpacerNew(expandable(L)))
           /\ nodes' = res.nodes
           /\ unlayouted' = res.unlayouted
           /\ panic' = res.panic
           /\ packed' = packed @@ (id :> [p |-> p, L |-> L])
    /\ phase1' = <<>>
    /\ divisors' = {}
    /\ relaid' = FALSE
    /\ UNCHANGED router
    /\ UNCHANGED view
    /\ UNCHANGED overflow_checks

-----------------------------------------------------------------------------
(* Focus *)

\* Widget::set_focus
set_focus(w, yn) ==
    [w EXCEPT !.has_focus = yn, !.needs_repaint = @ \/ (w.has_focus # yn)]

\* a move of the focus that leaves the flag of the widget it moves from
move_focus_keeps_old(id) ==
    /\ widgets' = [widgets EXCEPT ![id] = set_focus(@, TRUE)]
    /\ focused_widget' = id
    /\ dispatch' = [dispatch EXCEPT
                        !.ev = <<>>,
                        !.calls = <<[to |-> focused_widget, call |-> "set_focus(false)",
                                     consumed |-> FALSE],
                                    [to |-> id, call |-> "set_focus(true)",
                                     consumed |-> FALSE]>>]

\* the focus moves from the focused widget to widget id
move_focus(id) ==
    /\ widgets' = [[widgets EXCEPT ![focused_widget] = set_focus(@, FALSE)]
                       EXCEPT ![id] = set_focus(@, TRUE)]
    /\ focused_widget' = id
    /\ dispatch' = [dispatch EXCEPT
                        !.ev = <<>>,
                        !.calls = <<[to |-> focused_widget, call |-> "set_focus(false)",
                                     consumed |-> FALSE],
                                    [to |-> id, call |-> "set_focus(true)",
                                     consumed |-> FALSE]>>]

\* UI::focus_widget
focus_widget(id) ==
    /\ Running
    /\ IF kind_takes_focus(widgets[id].type)
       THEN move_focus(id)
       ELSE /\ UNCHANGED <<widgets, focused_widget>>
            /\ dispatch' = [dispatch EXCEPT !.ev = <<>>, !.calls = <<>>]
    /\ relaid' = FALSE
    /\ UNCHANGED <<nodes, unlayouted, overflow_checks, panic, packed, phase1, divisors, view,
                   drag_ongoing, widget_under_pointer, have_focus>>

\* a scan that starts anew at widget 0
next_focus_from_start(fw, focused) ==
    IF \E id \in Ids : kind_takes_focus(widgets[id].type)
    THEN CHOOSE id \in Ids : /\ kind_takes_focus(widgets[id].type)
                             /\ \A other \in Ids : kind_takes_focus(widgets[other].type)
                                                        => id <= other
    ELSE focused

\* a scan that ends only at a widget that takes the focus
scan_ends_at_taker(next, focused) == kind_takes_focus(widgets[next].type)

\* `if self.widgets[fw].takes_focus() || (fw == self.focused_widget) { break; }`
scan_ends(next, focused) == kind_takes_focus(widgets[next].type) \/ next = focused

RECURSIVE next_focus(_, _)
\* the loop of UI::focus_next_widget, from fw on
next_focus(fw, focused) ==
    LET next == IF fw + 1 = Cardinality(Ids) THEN 0 ELSE fw + 1
    IN  IF scan_ends(next, focused)
        THEN next
        ELSE next_focus(next, focused)

RECURSIVE scan_length(_, _, _)
\* the number of widgets the loop of UI::focus_next_widget examines from fw
\* on, after it has examined some; the count stops beyond MaxScan
scan_length(fw, focused, examined) ==
    LET next == IF fw + 1 = Cardinality(Ids) THEN 0 ELSE fw + 1
    IN  IF scan_ends(next, focused) \/ examined >= MaxScan
        THEN examined + 1
        ELSE scan_length(next, focused, examined + 1)

\* UI::focus_next_widget
focus_next_widget ==
    /\ Running
    /\ move_focus(next_focus(focused_widget, focused_widget))
    /\ relaid' = FALSE
    /\ UNCHANGED <<nodes, unlayouted, overflow_checks, panic, packed, phase1, divisors, view,
                   drag_ongoing, widget_under_pointer, have_focus>>

\* the window gains (yn) or loses the keyboard focus
window_focus(yn) ==
    /\ Running
    /\ have_focus' = yn
    /\ widgets' = [widgets EXCEPT ![focused_widget] = set_focus(@, yn)]
    /\ dispatch' = [dispatch EXCEPT
                        !.ev = <<>>,
                        !.calls = <<[to |-> focused_widget,
                                     call |-> IF yn THEN "set_focus(true)"
                                              ELSE "set_focus(false)",
                                     consumed |-> FALSE]>>]
    /\ relaid' = FALSE
    /\ UNCHANGED <<nodes, unlayouted, overflow_checks, panic, packed, phase1, divisors, view,
                   drag_ongoing, widget_under_pointer, focused_widget>>

\* UI::focus_in
focus_in == window_focus(TRUE)

\* UI::focus_out
focus_out == window_focus(FALSE)

\* UI::has_focus
has_focus == have_focus

-----------------------------------------------------------------------------
(* Reminders *)

\* the timeouts, in seconds, that widgets ask for
Durations == {1, 2}

\* Widget::request_reminder, which a widget of the application calls
request_reminder(id, timeout) ==
    /\ Running
    /\ widgets' = [widgets EXCEPT ![id].reminder_request = <<timeout>>]
    /\ relaid' = FALSE
    /\ UNCHANGED router
    /\ UNCHANGED <<nodes, unlayouted, overflow_checks, panic, packed, phase1, divisors, view>>

\* a reminder_request that leaves the request with the widget
reminder_request_kept(w) == w

\* Widget::reminder_request: the widget after the UI has taken the request
reminder_request(w) == [w EXCEPT !.reminder_request = <<>>]

\* Widget::ask_for_repaint, which a widget of the application calls
ask_for_repaint(id) ==
    /\ Running
    /\ widgets' = [widgets EXCEPT ![id].needs_repaint = TRUE]
    /\ dispatch' = [dispatch EXCEPT
                        !.ev = <<>>,
                        !.calls = <<[to |-> id, call |-> "ask_for_repaint",
                                     consumed |-> FALSE]>>]
    /\ relaid' = FALSE
    /\ UNCHANGED <<nodes, unlayouted, overflow_checks, panic, packed, phase1, divisors, view,
                   drag_ongoing, widget_under_pointer, focused_widget, have_focus>>

\* a read of the flag that leaves it set
needs_repaint_kept(w) == w

\* WidgetStub::needs_repaint: the widget after the UI has read the flag
needs_repaint(w) == [w EXCEPT !.needs_repaint = FALSE]

\* pugl's start_timer: the timer of the widget runs with the timeout
start_timer(timers, id, timeout) == {t \in timers : t[1] # id} \cup {<<id, timeout>>}

\* pugl's stop_timer
stop_timer(timers, id) == {t \in timers : t[1] # id}

RECURSIVE next_event_loop(_, _)
\* `for id in 0..self.widgets.len()` of UI::next_event, from id on: v is the
\* registry, the timers of the host and the calls made to the host so far
next_event_loop(id, v) ==
    IF id = Cardinality(Ids) THEN v
    ELSE next_event_loop(id + 1,
             [ws |-> [v.ws EXCEPT ![id] = reminder_request(needs_repaint(@))],
              timers |-> IF v.ws[id].reminder_request = <<>> THEN v.timers
                         ELSE start_timer(v.timers, id, v.ws[id].reminder_request[1]),
              calls |-> v.calls
                        \o (IF v.ws[id].needs_repaint
                            THEN <<<<"post_redisplay_rect", id>>>> ELSE <<>>)
                        \o (IF v.ws[id].reminder_request = <<>> THEN <<>>
                            ELSE <<<<"start_timer", id, v.ws[id].reminder_request[1]>>>>)])

NextEventDone(v) ==
    /\ widgets' = v.ws
    /\ view' = [view EXCEPT !.timers = v.timers, !.calls = v.calls]

\* UI::next_event, up to the call of update(), in which the host calls the
\* handlers of the events it has
next_event ==
    /\ Running
    /\ NextEventDone(next_event_loop(0, [ws |-> widgets, timers |-> view.timers, calls |-> <<>>]))
    /\ dispatch' = [dispatch EXCEPT !.ev = <<>>, !.calls = <<>>]
    /\ relaid' = FALSE
    /\ UNCHANGED <<nodes, unlayouted, overflow_checks, panic, packed, phase1, divisors,
                   drag_ongoing, widget_under_pointer, focused_widget,
                   have_focus>>

\* the call of widgets[id].reminder_handler() and its answer
reminder_handler(id, needed) ==
    [to |-> id,
     call |-> IF needed THEN "reminder_handler: true" ELSE "reminder_handler: false",
     consumed |-> FALSE]

\* a timer_event that stops the timer when the reminder is still needed
stops_if_needed(needed) == needed

\* `if !self.widgets[id].reminder_handler() { self.stop_timer(id); }`
stops_unless_needed(needed) == ~needed

\* UI::timer_event: the host reports that the timer of widget id has fired;
\* the reminder_handler of the widget answers whether the reminder is still
\* needed
timer_event(id, needed) ==
    /\ Running
    /\ dispatch' = [dispatch EXCEPT
                        !.ev = <<>>,
                        !.calls = <<reminder_handler(id, needed)>>]
    /\ view' = IF stops_unless_needed(needed)
               THEN [view EXCEPT !.timers = stop_timer(@, id),
                                 !.calls = <<<<"stop_timer", id>>>>]
               ELSE [view EXCEPT !.calls = <<>>]
    /\ relaid' = FALSE
    /\ UNCHANGED <<widgets, nodes, unlayouted, overflow_checks, panic, packed, phase1, divisors,
                   drag_ongoing, widget_under_pointer, focused_widget,
                   have_focus>>

-----------------------------------------------------------------------------
(* UI::event *)

\* the buttons of the pointer the model sends
Buttons == {1, 2}

\* the positions the model sends events at
Points == {<<R(1), R(1)>>, <<R(1), R(4)>>, <<R(1), R(8)>>}

KeyKinds == {"KeyPress", "KeyRelease"}

ButtonKinds == {"MouseButtonPress", "MouseButtonRelease"}

OtherKinds == {"MouseMove", "PointerIn", "PointerOut"}

\* pugl_sys Event: its data (the kind, and the button of a button event) and
\* its position
Events ==
    [kind : KeyKinds \cup OtherKinds, num : {0}, pos : Points]
        \cup [kind : ButtonKinds, num : Buttons, pos : Points]

\* no widget consumes the event
NoConsumer == -1

\* Widget::is_hit_by
is_hit_by(w, pos) ==
    LET x1 == w.layout.pos[1]
        x2 == RAdd(x1, w.layout.size[1])
        y1 == w.layout.pos[2]
        y2 == RAdd(y1, w.layout.size[2])
    IN  (RGt(pos[1], x1) /\ RGt(x2, pos[1])) /\ (RGt(pos[2], y1) /\ RGt(y2, pos[2]))

\* a leave that leaves the hover flag of the widget set
pointer_wrap_stays_hovered(w, hovered) ==
    IF w.type = "LayoutWidget" THEN w
    ELSE [w EXCEPT !.hovered = TRUE, !.needs_repaint = TRUE]

\* Widget::pointer_enter_wrap and pointer_leave_wrap, which LayoutWidget
\* overrides with empty bodies
pointer_wrap(w, hovered) ==
    IF w.type = "LayoutWidget" THEN w
    ELSE [w EXCEPT !.hovered = hovered, !.needs_repaint = TRUE]

RECURSIVE event_path_flat(_, _, _, _)
\* an event path that ends at the first child of n that is hit
event_path_flat(n, i, pos, path) ==
    IF i > Len(nodes[n].children) THEN path
    ELSE IF is_hit_by(widgets[nodes[n].children[i]], pos)
         THEN Append(path, nodes[n].children[i])
         ELSE event_path_flat(n, i + 1, pos, path)

RECURSIVE event_path(_, _, _, _)
\* UI::event_path: the path extended by node n and by the first child of n
\* that is hit, from its i-th child on
event_path(n, i, pos, path) ==
    IF i > Len(nodes[n].children) THEN path
    ELSE IF is_hit_by(widgets[nodes[n].children[i]], pos)
         THEN event_path(nodes[n].children[i], 1, pos, Append(path, nodes[n].children[i]))
         ELSE event_path(n, i + 1, pos, path)

\* The operators below work on r, the state of UI::event: the registry,
\* drag_ongoing, widget_under_pointer, the calls made so far, and whether the
\* event is still at hand (`Some(ev)`).

\* widgets[id].event(ev): the widget `consumer` answers None, every other Some(ev)
deliver(r, id, consumer) ==
    [r EXCEPT !.calls = Append(@, [to |-> id, call |-> "event", consumed |-> id = consumer]),
              !.ev = id # consumer]

pointer_enter_wrap(r, id) ==
    [r EXCEPT !.ws[id] = pointer_wrap(@, TRUE),
              !.calls = Append(@, [to |-> id, call |-> "pointer_enter_wrap",
                                   consumed |-> FALSE])]

pointer_leave_wrap(r, id) ==
    [r EXCEPT !.ws[id] = pointer_wrap(@, FALSE),
              !.calls = Append(@, [to |-> id, call |-> "pointer_leave_wrap",
                                   consumed |-> FALSE])]

\* a release that sends pointer_leave_wrap wherever the pointer is
drag_released_always_leaves(r, pos, delivered) == pointer_leave_wrap(delivered, r.wup)

\* `let pev = wgt.event(ev); if !wgt.is_hit_by(ev.pos()) { wgt.pointer_leave_wrap(); }`
drag_released(r, pos, delivered) ==
    IF is_hit_by(r.ws[r.wup], pos) THEN delivered
    ELSE pointer_leave_wrap(delivered, r.wup)

\* a match on ev.data that sends the key events to the focused widget during
\* a drag as well
match_data_keys_to_focus(r, ev, consumer) ==
    CASE ev.kind \in KeyKinds -> deliver(r, focused_widget, consumer)
      [] ev.kind = "MouseButtonPress" ->
             IF ev.num = 1 THEN [r EXCEPT !.drag = TRUE] ELSE r
      [] ev.kind = "MouseButtonRelease" ->
             IF ev.num = 1 /\ r.drag
             THEN drag_released([r EXCEPT !.drag = FALSE], ev.pos,
                                deliver([r EXCEPT !.drag = FALSE], r.wup, consumer))
             ELSE r
      [] OTHER ->
             IF r.drag
             THEN [deliver(r, r.wup, consumer) EXCEPT !.ev = FALSE]
             ELSE r

\* a match on ev.data in which the press of any button starts a drag
match_data_any_button(r, ev, consumer) ==
    CASE ev.kind \in KeyKinds ->
             IF r.drag
             THEN [deliver(r, r.wup, consumer) EXCEPT !.ev = FALSE]
             ELSE deliver(r, focused_widget, consumer)
      [] ev.kind = "MouseButtonPress" -> [r EXCEPT !.drag = TRUE]
      [] ev.kind = "MouseButtonRelease" ->
             IF ev.num = 1 /\ r.drag
             THEN drag_released([r EXCEPT !.drag = FALSE], ev.pos,
                                deliver([r EXCEPT !.drag = FALSE], r.wup, consumer))
             ELSE r
      [] OTHER ->
             IF r.drag
             THEN [deliver(r, r.wup, consumer) EXCEPT !.ev = FALSE]
             ELSE r

\* the match on ev.data: the state after it; the event is at hand if it goes
\* on to the widgets at its position
match_data(r, ev, consumer) ==
    CASE ev.kind \in KeyKinds ->
             IF r.drag
             THEN [deliver(r, r.wup, consumer) EXCEPT !.ev = FALSE]
             ELSE deliver(r, focused_widget, consumer)
      [] ev.kind = "MouseButtonPress" ->
             IF ev.num = 1 THEN [r EXCEPT !.drag = TRUE] ELSE r
      [] ev.kind = "MouseButtonRelease" ->
             IF ev.num = 1 /\ r.drag
             THEN drag_released([r EXCEPT !.drag = FALSE], ev.pos,
                                deliver([r EXCEPT !.drag = FALSE], r.wup, consumer))
             ELSE r
      [] OTHER ->
             IF r.drag
             THEN [deliver(r, r.wup, consumer) EXCEPT !.ev = FALSE]
             ELSE r

\* the pointer has come to widget id: leave the widget it was in, enter id
pointer_moved(r, id) ==
    IF r.wup # id
    THEN [pointer_enter_wrap(pointer_leave_wrap(r, r.wup), id) EXCEPT !.wup = id]
    ELSE r

\* `if ev.data == EventType::PointerIn { ... }`
pointer_in(r, ev, id) ==
    IF ev.kind = "PointerIn" THEN [pointer_enter_wrap(r, id) EXCEPT !.wup = id] ELSE r

\* a hover tracking without the case of PointerOut
pointer_out_ignored(r, ev) == r

\* `if ev.data == EventType::PointerOut { ... }`
pointer_out(r, ev) ==
    IF ev.kind = "PointerOut" THEN pointer_leave_wrap(r, r.wup) ELSE r

RECURSIVE bubble_to_root(_, _, _, _)
\* a loop that goes on after a widget has consumed the event
bubble_to_root(r, path, k, consumer) ==
    IF k = 0 THEN r
    ELSE bubble_to_root(deliver(r, path[k], consumer), path, k - 1, consumer)

RECURSIVE bubble(_, _, _, _)
\* `while let Some(id) = event_path.pop_back()`, with k widgets left on the path
bubble(r, path, k, consumer) ==
    IF k = 0 \/ ~r.ev THEN r
    ELSE bubble(deliver(r, path[k], consumer), path, k - 1, consumer)

\* the event goes to the widgets at its position
hit(r, ev, consumer, path) ==
    bubble(pointer_out(pointer_in(pointer_moved(r, path[Len(path)]), ev, path[Len(path)]),
                       ev),
           path, Len(path), consumer)

\* UI::event after the root widget has let the event pass
passed_root(r, ev, consumer) ==
    IF ~r.ev THEN r ELSE hit(r, ev, consumer, event_path(0, 1, ev.pos, <<0>>))

\* a UI::event that goes on whatever the root widget answers
EventResultRootIgnored(ev, consumer) ==
    passed_root(match_data([deliver([ws |-> widgets, drag |-> drag_ongoing,
                                     wup |-> widget_under_pointer, calls |-> <<>>,
                                     ev |-> TRUE], 0, consumer) EXCEPT !.ev = TRUE],
                           ev, consumer),
                ev, consumer)

\* UI::event with scale_factor 1: the root widget sees the event first
EventResult(ev, consumer) ==
    LET r == deliver([ws |-> widgets, drag |-> drag_ongoing, wup |-> widget_under_pointer,
                      calls |-> <<>>, ev |-> TRUE], 0, consumer)
    IN  IF ~r.ev THEN r ELSE passed_root(match_data(r, ev, consumer), ev, consumer)

EventDone(ev, consumer, r) ==
    /\ widgets' = r.ws
    /\ drag_ongoing' = r.drag
    /\ widget_under_pointer' = r.wup
    /\ dispatch' = [ev |-> ev, calls |-> r.calls,
                    owner |-> IF ~r.drag THEN <<>>
                              ELSE IF drag_ongoing THEN dispatch.owner ELSE <<r.wup>>]

event(ev, consumer) ==
    /\ Running
    /\ EventDone(ev, consumer, EventResult(ev, consumer))
    /\ relaid' = FALSE
    /\ UNCHANGED <<nodes, unlayouted, overflow_checks, panic, packed, phase1, divisors, view,
                   focused_widget, have_focus>>

-----------------------------------------------------------------------------
(* Specifications *)

\* the handle new_layouter returned for p, or root_layout() for the root
HandleOf(p) == nodes[p].layouter

Containers == {p \in Ids : nodes[p].layouter # "none"}

\* the widget trees an application can build, whatever handles it passes
NextTree ==
    \/ \E kind \in {"NotExpandable"} : new_widget(kind)
    \/ \E L \in Layouters : new_layouter(L)
    \/ \E id \in unlayouted, p \in Ids, L \in Layouters, target \in Targets :
           pack_to_layout(id, p, L, target)
    \/ \E id \in Ids \ unlayouted, p \in Containers, target \in Targets :
           pack_to_layout(id, p, HandleOf(p), target)

SpecTree == Init /\ [][NextTree]_vars

-----------------------------------------------------------------------------
(* The shape of the tree *)

\* the nodes that have w among their children
Parents(ns, w) == {n \in DOMAIN ns : \E i \in 1..Len(ns[n].children) : ns[n].children[i] = w}

\* how often w occurs in the child lists
Occurrences(ns, w) ==
    Cardinality({x \in (DOMAIN ns) \X (1..(MaxWidgets + 1)) :
                    x[2] <= Len(ns[x[1]].children) /\ ns[x[1]].children[x[2]] = w})

\* the nodes of the subtree under n, down to `depth` levels
RECURSIVE Subtree(_, _)
Subtree(n, depth) ==
    IF depth = 0 THEN {n}
    ELSE {n} \cup UNION {Subtree(nodes[n].children[i], depth - 1) :
                             i \in 1..Len(nodes[n].children)}

\* the root tree together with the pending nodes and their subtrees
Forest == UNION {Subtree(n, Cardinality(Ids)) : n \in {0} \cup unlayouted}

\* C1: after pack_to_layout(w, p, target) returned normally, with p a
\* registered container other than w and the widgets under w, and a handle of
\* its layouter type, the node of w is a child of the node of p and of no
\* other node.
C1_ChildOfDesignatedParent ==
    \A w \in Ids :
        (/\ Running
         /\ packed[w].p # -1
         /\ packed[w].p \notin Subtree(w, Cardinality(Ids))
         /\ nodes[packed[w].p].layouter = packed[w].L)
        => Parents(nodes, w) = {packed[w].p}

\* every non-root widget occurs exactly once in the forest of the root tree and
\* the pending subtrees, either pending or with exactly one parent
C2_OnceInForest ==
    Running =>
        /\ Forest = Ids
        /\ Occurrences(nodes, 0) = 0 /\ 0 \notin unlayouted
        /\ \A w \in Ids \ {0} :
               IF w \in unlayouted THEN Occurrences(nodes, w) = 0
               ELSE Occurrences(nodes, w) = 1

\* a widget that has a parent keeps it, and is not pending again
C2_KeepsParent ==
    \A w \in Ids :
        Parents(nodes, w) # {} =>
            /\ Parents(nodes', w) = Parents(nodes, w)
            /\ Occurrences(nodes', w) = Occurrences(nodes, w)
            /\ w \notin unlayouted'

\* C2: in every non-failed state every non-root widget occurs exactly once in
\* the forest of the root tree and the pending subtrees, either pending or
\* with exactly one parent; and a widget that has a parent keeps it.
C2_ExactlyOnceForever == []C2_OnceInForest /\ [][C2_KeepsParent]_vars

\* a widget nested two levels under the root while another is still pending
C2_Witness ==
    /\ Running
    /\ unlayouted # {}
    /\ \E w \in Ids, n \in Ids \ {0} : n \in Parents(nodes, w) /\ 0 \in Parents(nodes, n)

\* C3: pack_to_layout on a widget that is not pending panics with "widget
\* already layouted?", and leaves the tree, the pending table and every
\* layouter's ordering as they were.
C3_RepackPanicsUntouched ==
    [][\A id \in Ids \ unlayouted, p \in Ids, L \in Layouters, target \in Targets :
           pack_to_layout(id, p, L, target) =>
               /\ panic' = "widget already layouted?"
               /\ nodes' = nodes
               /\ unlayouted' = unlayouted]_vars

\* a widget that has its parent was packed again
C3_Witness ==
    /\ panic = "widget already layouted?"
    /\ \E w \in Ids : Parents(nodes, w) # {}

\* C4: a pack_to_layout of w whose parent handle designates a node (other than
\* w and the widgets under w) without a layouter, or with a layouter of
\* another kind than the handle's, never returns normally.
C4_WrongHandleNeverReturns ==
    \A w \in Ids :
        (/\ Running
         /\ packed[w].p # -1
         /\ packed[w].p \notin Subtree(w, Cardinality(Ids)))
        => nodes[packed[w].p].layouter = packed[w].L

ResizeSizes == {<<R(MaxResize), R(1)>>, <<R(MaxResize), R(MaxResize)>>}

LayoutKinds == {"NotExpandable", "BothExpandable", "Filler"}

\* no layout has run yet: the application is still building its tree
Building == phase1 = <<>>

\* the application may register one more widget before it packs the pending ones
MayRegister == Building /\ Cardinality(unlayouted) < MaxPending

\* an application that builds its tree with the handles the registration calls
\* return, then lays it out and has its window resized
NextLayout ==
    \/ \E kind \in LayoutKinds : MayRegister /\ new_widget(kind)
    \/ \E L \in Layouters : MayRegister /\ new_layouter(L)
    \/ \E id \in unlayouted, p \in Containers, target \in Targets :
           Building /\ pack_to_layout(id, p, HandleOf(p), target)
    \/ \E p \in Containers \ {0}, target \in Targets :
           MayRegister /\ add_spacer(p, HandleOf(p), target)
    \/ \E p \in Containers, v \in 0..MaxPadding :
           Building /\ set_padding(p, HandleOf(p), v)
    \/ unlayouted = {} /\ do_layout
    \/ \E size \in ResizeSizes : unlayouted = {} /\ resize(size)

SpecLayout == Init /\ [][NextLayout]_vars

LockKinds == {"NotExpandable", "HeightExpandable"}

\* an application that locks the width or the height of some of its containers
\* before it lays its tree out
NextLock ==
    \/ \E kind \in LockKinds : MayRegister /\ new_widget(kind)
    \/ \E L \in Layouters : MayRegister /\ new_layouter(L)
    \/ \E id \in unlayouted, p \in Containers, target \in Targets :
           Building /\ pack_to_layout(id, p, HandleOf(p), target)
    \/ \E p \in Containers \ {0} : Building /\ ~widgets[p].width_locked /\ lock_width(p)
    \/ \E p \in Containers \ {0} : Building /\ ~widgets[p].height_locked /\ lock_height(p)
    \/ unlayouted = {} /\ Building /\ do_layout
    \/ unlayouted = {} /\ ~Building /\ resize(<<R(MaxResize), R(MaxResize)>>)

SpecLock == Init /\ [][NextLock]_vars

\* an application that fits its window to the layout, before or after the
\* layout, with or without widgets
NextFit ==
    \/ \E kind \in {"NotExpandable"} : MayRegister /\ new_widget(kind)
    \/ \E L \in Layouters : MayRegister /\ new_layouter(L)
    \/ \E id \in unlayouted, p \in Containers, target \in Targets :
           Building /\ pack_to_layout(id, p, HandleOf(p), target)
    \/ unlayouted = {} /\ do_layout
    \/ \E size \in ResizeSizes : unlayouted = {} /\ resize(size)
    \/ fit_window_size
    \/ fit_window_min_size

SpecFit == Init /\ [][NextFit]_vars

\* the widget that answers None to the event, if any: a widget of the
\* application; LayoutWidget and Spacer keep the event() of Widget, which
\* answers Some(ev)
Consumers == {id \in Ids : widgets[id].type \notin {"LayoutWidget", "Spacer"}} \cup {NoConsumer}

\* an application that packs focusable widgets into its root, lays them out,
\* perhaps with a widget still pending, and then handles the events of the
\* window system and moves the focus
NextEvents ==
    \/ \E kind \in {"Focusable"} :
           MayRegister /\ Cardinality(Ids) <= MaxRouted /\ new_widget(kind)
    \/ \E id \in unlayouted : Building /\ pack_to_layout(id, 0, HandleOf(0), "Back")
    \/ Building /\ do_layout
    \/ \E id \in Ids : ~Building /\ focus_widget(id)
    \/ \E ev \in Events, consumer \in Consumers : ~Building /\ event(ev, consumer)

SpecEvents == Init /\ [][NextEvents]_vars

\* the pointer events of the window system, with button 1 only
PointerEvents == {ev \in Events : ev.kind \notin KeyKinds /\ ev.num # 2}

\* an application that nests vertical layouts, packs focusable widgets into
\* them, lays the tree out and then handles the pointer events of the window
\* system
NextNested ==
    \/ \E kind \in {"Focusable"} : MayRegister /\ new_widget(kind)
    \/ \E L \in {"VerticalLayouter"} : MayRegister /\ new_layouter(L)
    \/ \E id \in unlayouted, p \in Containers :
           Building /\ pack_to_layout(id, p, HandleOf(p), "Back")
    \/ Building /\ unlayouted = {} /\ do_layout
    \/ \E ev \in PointerEvents, consumer \in Consumers : ~Building /\ event(ev, consumer)

SpecNested == Init /\ [][NextNested]_vars

FocusKinds == {"Focusable", "NotExpandable"}

\* the key events the host sends the window of SpecFocus
FocusEvents == {ev \in Events : ev.kind = "KeyPress" /\ ev.pos = <<R(1), R(1)>>}

\* an application that registers widgets that take the focus and widgets that
\* do not, packs some of them into its root, and moves the focus, in a window
\* that gains and loses the focus and receives key presses
NextFocus ==
    \/ \E kind \in FocusKinds : MayRegister /\ new_widget(kind)
    \/ \E L \in {"VerticalLayouter"} : MayRegister /\ new_layouter(L)
    \/ \E id \in unlayouted : pack_to_layout(id, 0, HandleOf(0), "Back")
    \/ \E id \in Ids : focus_widget(id)
    \/ focus_next_widget
    \/ focus_in
    \/ focus_out
    \/ \E ev \in FocusEvents, consumer \in Consumers : event(ev, consumer)

SpecFocus == Init /\ [][NextFocus]_vars

\* the widgets of the application: they ask for reminders and answer the
\* reminder_handler as they like; LayoutWidget and Spacer never ask
Applications == {id \in Ids : widgets[id].type \notin {"LayoutWidget", "Spacer"}}

\* the widgets whose timer runs
Timed == {t[1] : t \in view.timers}

\* an application whose widgets ask for reminders, and a host that starts the
\* timers, fires them and stops them
NextTimers ==
    \/ \E kind \in {"NotExpandable"} :
           MayRegister /\ Cardinality(Ids) <= MaxRouted /\ new_widget(kind)
    \/ \E id \in unlayouted : pack_to_layout(id, 0, HandleOf(0), "Back")
    \/ \E id \in Applications, timeout \in Durations : request_reminder(id, timeout)
    \/ next_event
    \/ \E id \in Timed, needed \in BOOLEAN : timer_event(id, needed)

SpecTimers == Init /\ [][NextTimers]_vars

\* the sizes the host gives the window of SpecWindow
WindowSizes == {<<R(MaxResize), R(MaxResize)>>}

\* the events the host sends the window of SpecWindow
WindowEvents ==
    {ev \in Events : ev.kind \in {"MouseMove", "PointerIn", "PointerOut"}}

\* an application with widgets in its root that ask for repaints and consume
\* no pointer event, in a window that is resized, gains and loses the focus,
\* and sees the pointer move
NextWindow ==
    \/ \E kind \in {"Focusable"} :
           MayRegister /\ Cardinality(Ids) <= MaxRouted /\ new_widget(kind)
    \/ \E id \in unlayouted : Building /\ pack_to_layout(id, 0, HandleOf(0), "Back")
    \/ Building /\ unlayouted = {} /\ do_layout
    \/ \E size \in WindowSizes : ~Building /\ resize(size)
    \/ \E ev \in WindowEvents : ~Building /\ event(ev, NoConsumer)
    \/ \E id \in Ids : ~Building /\ focus_widget(id)
    \/ ~Building /\ focus_in
    \/ ~Building /\ focus_out
    \/ \E id \in Applications : ~Building /\ ask_for_repaint(id)
    \/ ~Building /\ next_event

SpecWindow == Init /\ [][NextWindow]_vars

\* an application with widgets in its root, some of which consume events, in
\* a window that is resized and laid out anew while the pointer moves and
\* button 1 is pressed and released
NextHover ==
    \/ \E kind \in {"Focusable"} :
           MayRegister /\ Cardinality(Ids) <= MaxRouted /\ new_widget(kind)
    \/ \E id \in unlayouted : Building /\ pack_to_layout(id, 0, HandleOf(0), "Back")
    \/ unlayouted = {} /\ do_layout
    \/ \E size \in WindowSizes : ~Building /\ resize(size)
    \/ \E ev \in PointerEvents, consumer \in Consumers : ~Building /\ event(ev, consumer)

SpecHover == Init /\ [][NextHover]_vars

-----------------------------------------------------------------------------
(* The geometry after a layout pass *)

\* a layout pass has just run to its end
Laid == Running /\ phase1 # <<>>

\* the widgets in the tree under the root
Attached == Subtree(0, Cardinality(Ids))

\* the attached containers that have children
Stacks == {n \in Attached : nodes[n].subnodes # <<>>}

Axis(n) == nodes[n].layouter

\* of child c of stack n, along the axis of n: the length phase 1 computed,
\* the length and the position after phase 2
Phase1Length(n, c) == length(Axis(n), phase1[c])

Phase1Cross(n, c) == cross(Axis(n), phase1[c])

LengthOf(n, c) == length(Axis(n), widgets[c].layout.size)

PosOf(n, c) == len_cross_pos(Axis(n), widgets[c].layout.pos)[1]

CrossPosOf(n, c) == len_cross_pos(Axis(n), widgets[c].layout.pos)[2]

Sized(n, c) == sized_length(Axis(n), widgets[c])

Expandable(n, c) == length_expandable(Axis(n), widgets[c])

SizedChildren(n) ==
    Cardinality({k \in 1..Len(nodes[n].subnodes) : Sized(n, StackIds(nodes, n)[k])})

ExpandableChildren(n) ==
    Cardinality({k \in 1..Len(nodes[n].subnodes) : Expandable(n, StackIds(nodes, n)[k])})

HasSpacer(n) ==
    \E k \in 1..Len(nodes[n].subnodes) : widgets[StackIds(nodes, n)[k]].type = "Spacer"

\* the gaps between k sized children
Gaps(k) == IF k >= 1 THEN k - 1 ELSE 0

Phase1LengthSum(n) ==
    RSum([k \in 1..Len(nodes[n].subnodes) |-> Phase1Length(n, StackIds(nodes, n)[k])])

RMax(a, b) == IF RGt(a, b) THEN a ELSE b

RECURSIVE MaxPhase1Cross(_, _)
MaxPhase1Cross(n, k) ==
    LET c == StackIds(nodes, n)[k]
    IN  IF k = 1 THEN Phase1Cross(n, c)
        ELSE RMax(Phase1Cross(n, c), MaxPhase1Cross(n, k - 1))

\* the length and the position of stack n itself, along its own axis
Available(n) == length(Axis(n), widgets[n].layout.size)

Origin(n) == len_cross_pos(Axis(n), widgets[n].layout.pos)[1]

CrossOrigin(n) == len_cross_pos(Axis(n), widgets[n].layout.pos)[2]

\* the empty space between the k-th child of stack n and its predecessor
SpaceBefore(n, k) ==
    LET ids == StackIds(nodes, n)
    IN  RSub(PosOf(n, ids[k]), RAdd(PosOf(n, ids[k - 1]), LengthOf(n, ids[k - 1])))

\* slack = available length - padding - spacing gaps - natural lengths
Slack(n) ==
    RSub(RSub(RSub(Available(n), RMul(R(2), nodes[n].padding)),
              RMul(nodes[n].spacing, R(Gaps(SizedChildren(n))))),
         Phase1LengthSum(n))

\* C6: phase 1 gives a leaf its min_size, and a stack with padding p and
\* spacing s the length 2p + the sum of its children's computed lengths +
\* s times the gaps between its k sized children (k - 1 for k >= 1, none for
\* k = 0) and the cross size 2p + the largest computed cross size of its
\* children.
C6_Phase1Size ==
    Laid =>
        \A n \in Attached :
            IF nodes[n].children = <<>> THEN phase1[n] = widgets[n].min
            ELSE /\ length(Axis(n), phase1[n]) =
                        RAdd(RAdd(RMul(R(2), nodes[n].padding), Phase1LengthSum(n)),
                             RMul(nodes[n].spacing, R(Gaps(SizedChildren(n)))))
                 /\ cross(Axis(n), phase1[n]) =
                        RAdd(RMul(R(2), nodes[n].padding),
                             MaxPhase1Cross(n, Len(nodes[n].subnodes)))

C8_GapCount ==
    Laid =>
        \A n \in Stacks :
            SizedChildren(n) >= 1 =>
                RSum([k \in 1..(Len(nodes[n].subnodes) - 1) |-> SpaceBefore(n, k + 1)])
                    = RMul(nodes[n].spacing, R(SizedChildren(n) - 1))

\* C9: after phase 2, in every stack that has a sized child, a spacer or
\* length-expandable child, and an available length of at least its phase-1
\* length, the first child starts at origin + padding and the last child
\* ends at origin + available length - padding.
C9_ExactFill ==
    Laid =>
        \A n \in Stacks :
            LET ids == StackIds(nodes, n)
                last == ids[Len(ids)]
            IN  (/\ SizedChildren(n) >= 1
                 /\ HasSpacer(n) \/ ExpandableChildren(n) >= 1
                 /\ RGe(Available(n), length(Axis(n), phase1[n])))
                => /\ PosOf(n, ids[1]) = RAdd(Origin(n), nodes[n].padding)
                   /\ RAdd(PosOf(n, last), LengthOf(n, last)) =
                          RSub(RAdd(Origin(n), Available(n)), nodes[n].padding)

\* C10: after phase 2, in every stack without spacers that has N >= 1
\* length-expandable children and slack S, every length-expandable child has
\* its phase-1 length + S/N and every other child its phase-1 length.
C10_Distribution ==
    Laid =>
        \A n \in Stacks :
            (~HasSpacer(n) /\ ExpandableChildren(n) >= 1) =>
                \A k \in 1..Len(nodes[n].subnodes) :
                    LET c == StackIds(nodes, n)[k]
                    IN  LengthOf(n, c) =
                            IF Expandable(n, c)
                            THEN RAdd(Phase1Length(n, c),
                                      RDiv(Slack(n), ExpandableChildren(n)))
                            ELSE Phase1Length(n, c)

SpacerChildren(n) ==
    Cardinality({k \in 1..Len(nodes[n].subnodes) :
                    widgets[StackIds(nodes, n)[k]].type = "Spacer"})

\* C11: after phase 2, in every stack that has a spacer, every spacer has its
\* phase-1 length + an equal share of the whole slack, and every other child,
\* length-expandable or not, has its phase-1 length.
C11_SpacerPrecedence ==
    Laid =>
        \A n \in Stacks :
            HasSpacer(n) =>
                \A k \in 1..Len(nodes[n].subnodes) :
                    LET c == StackIds(nodes, n)[k]
                    IN  LengthOf(n, c) =
                            IF widgets[c].type = "Spacer"
                            THEN RAdd(Phase1Length(n, c),
                                      RDiv(Slack(n), SpacerChildren(n)))
                            ELSE Phase1Length(n, c)

\* the stacks in which the layout that has just run divided a slack
Dividing == {d[1] : d \in divisors}

\* C12: in a layout pass no slack is divided by a candidate count of zero; a
\* stack with no spacer and no length-expandable child sees no division at all
\* and all its children keep their phase-1 lengths.
C12_NoCandidatesNoDivision ==
    Laid =>
        /\ \A d \in divisors : d[2] # 0
        /\ \A n \in Stacks :
               (~HasSpacer(n) /\ ExpandableChildren(n) = 0) =>
                   /\ n \notin Dividing
                   /\ \A k \in 1..Len(nodes[n].subnodes) :
                          LET c == StackIds(nodes, n)[k]
                          IN  LengthOf(n, c) = Phase1Length(n, c)

\* a stack of fixed widgets that was laid out with slack at hand, beside
\* a stack in which a slack was divided
C12_Witness ==
    /\ Laid
    /\ \E n \in Stacks :
           /\ ~HasSpacer(n)
           /\ ExpandableChildren(n) = 0
           /\ Len(nodes[n].subnodes) >= 1
           /\ RGt(Slack(n), Zero)
    /\ divisors # {}

\* the rectangle of w lies within the rectangle of p, on both axes
Within(w, p) ==
    \A i \in 1..2 :
        /\ RGe(widgets[w].layout.pos[i], widgets[p].layout.pos[i])
        /\ RGe(RAdd(widgets[p].layout.pos[i], widgets[p].layout.size[i]),
               RAdd(widgets[w].layout.pos[i], widgets[w].layout.size[i]))

NoNegativeSlack == \A n \in Stacks : RGe(Slack(n), Zero)

\* every stack has a sized child: sized_widgets - 1 does not overflow
NoOverflow == \A n \in Stacks : SizedChildren(n) >= 1

\* C13: after a layout pass in which no stack has negative slack (and no
\* subtraction overflowed), the rectangle of every attached widget other than
\* the root lies within the rectangle of its parent, on both axes.
C13_Containment ==
    (Laid /\ NoNegativeSlack /\ NoOverflow) =>
        \A w \in Attached \ {0} : \A p \in Parents(nodes, w) : Within(w, p)

\* the widgets below container n
Below(n) == Subtree(n, Cardinality(Ids)) \ {n}

\* the attached containers other than the root
Inner == {n \in Attached \ {0} : widgets[n].type = "LayoutWidget"}

\* C14: after the aggregation pass of do_layout every container other than the
\* root that is not locked on an axis is expandable on that axis if and only
\* if some widget below it, at whatever depth, is expandable on that axis.
C14_DerivedExpandability ==
    Laid =>
        \A n \in Inner :
            /\ ~widgets[n].width_locked =>
                   (widgets[n].width_expandable <=>
                        \E w \in Below(n) : nodes[w].children = <<>> /\ widgets[w].width_expandable)
            /\ ~widgets[n].height_locked =>
                   (widgets[n].height_expandable <=>
                        \E w \in Below(n) : nodes[w].children = <<>> /\ widgets[w].height_expandable)

\* a container that holds a locked container that holds a height-expandable
\* widget: the outer one is marked height-expandable, not width-expandable
C14_Witness ==
    /\ Laid
    /\ \E outer \in Inner, inner \in Inner :
           /\ outer \in Parents(nodes, inner)
           /\ widgets[inner].height_locked
           /\ ~widgets[outer].height_locked
           /\ ~widgets[outer].width_locked
           /\ \E w \in Below(inner) : widgets[w].type = "HeightExpandable"
           /\ widgets[outer].height_expandable
           /\ ~widgets[outer].width_expandable

\* C15: a do_layout that follows a layout pass with no attachment, parameter
\* or root-size change in between leaves the size and the position of every
\* widget as they are, and its phase 1 computes the sizes the phase 1 of the
\* pass before computed.
C15_Idempotence ==
    [][relaid' => (widgets' = widgets /\ phase1' = phase1 /\ panic' = panic)]_vars

\* a second pass over a tree in which phase 2 has expanded a widget
C15_Witness ==
    /\ Laid
    /\ relaid
    /\ \E n \in Stacks : \E k \in 1..Len(nodes[n].subnodes) :
           LET c == StackIds(nodes, n)[k]
           IN  RGt(LengthOf(n, c), Phase1Length(n, c))

\* every widget attached to the root is at least as large as phase 1
\* computed, on both axes
AtLeastMinimum ==
    \A w \in Attached \ {0} : \A i \in 1..2 :
        RGe(widgets[w].layout.size[i], phase1[w][i])

\* the layout of the tree at its minimum size: what do_layout gives when no
\* size was requested
MinimumLayout ==
    LayoutResult([widgets EXCEPT ![0].layout.size = <<Zero, Zero>>], "wrapping").ws

\* the requested size is below the size phase 1 computed for the root
BelowMinimum(size) == \A i \in 1..2 : RGe(phase1[0][i], size[i])

\* C16: after a resize, whatever the requested size, every widget attached to
\* the root is at least as large as phase 1 computed, on both axes; a resize
\* to less than the minimum size leaves every widget as in the layout at the
\* minimum size. (Stacks without a sized child, where the slack computation
\* overflows, left aside.)
C16_ResizeKeepsMinimum ==
    [][\A size \in ResizeSizes :
           (phase1' # <<>> /\ panic' = "none" /\ NoOverflow' /\ resize(size)) =>
               /\ AtLeastMinimum'
               /\ BelowMinimum(size)' => widgets' = MinimumLayout]_vars

\* the root widget's width times height is zero
ZeroArea == widgets[0].layout.size[1] = Zero \/ widgets[0].layout.size[2] = Zero

\* no layout pass has run since the creation of the UI (trees are built
\* before the first pass)
NeverLaid == phase1 = <<>> /\ ~view.resized

NoWidgetAttached == nodes[0].children = <<>>

\* a call of fit_window_size or fit_window_min_size panics with its message if
\* the root has no area, and sets its hint of the window otherwise
FitPanicsIffZeroArea ==
    \A hint \in {"default_size", "min_size"} :
        fit_window(hint) =>
            /\ panic' = (IF ZeroArea THEN FitPanic(hint) ELSE "none")
            /\ ~ZeroArea => view'[hint] # <<>>

-----------------------------------------------------------------------------
(* The routing of events *)

\* the step is a call of UI::event
EventStep == dispatch'.ev # <<>> /\ \E consumer \in Consumers : event(dispatch'.ev, consumer)

\* the call of widgets[0].event(ev) that the root widget answers with None
RootConsumed == [to |-> 0, call |-> "event", consumed |-> TRUE]

RootPassed == [to |-> 0, call |-> "event", consumed |-> FALSE]

\* C18: the first call of UI::event on a widget is the delivery of the event
\* to the root widget; if the root widget consumes it, no other call on a
\* widget follows, and drag_ongoing, widget_under_pointer, focused_widget and
\* the hover flag of every widget are as before the event.
C18_RootFirst ==
    [][EventStep =>
           /\ Head(dispatch'.calls) \in {RootConsumed, RootPassed}
           /\ Head(dispatch'.calls) = RootConsumed =>
                  /\ dispatch'.calls = <<RootConsumed>>
                  /\ UNCHANGED <<drag_ongoing, widget_under_pointer, focused_widget>>
                  /\ \A id \in Ids : widgets'[id].hovered = widgets[id].hovered]_vars

\* the root widget has consumed a release of button 1 during a drag, with the
\* pointer outside the widget hovered
C18_Witness ==
    /\ dispatch.ev # <<>>
    /\ dispatch.calls = <<RootConsumed>>
    /\ dispatch.ev.kind = "MouseButtonRelease"
    /\ dispatch.ev.num = 1
    /\ drag_ongoing
    /\ widget_under_pointer # 0
    /\ widgets[widget_under_pointer].hovered
    /\ ~is_hit_by(widgets[widget_under_pointer], dispatch.ev.pos)

\* the step is a call of UI::event with a key event that the root widget has
\* let pass
KeyStep == EventStep /\ dispatch'.ev.kind \in KeyKinds /\ Head(dispatch'.calls) = RootPassed

\* the call of widgets[id].event(ev)
Delivery(id) == {[to |-> id, call |-> "event", consumed |-> c] : c \in BOOLEAN}

C19_WitnessDrag ==
    /\ dispatch.ev # <<>>
    /\ dispatch.ev.kind \in KeyKinds
    /\ drag_ongoing
    /\ focused_widget # 0
    /\ widget_under_pointer \notin {0, focused_widget}
    /\ dispatch.calls = <<RootPassed, [to |-> widget_under_pointer, call |-> "event",
                                       consumed |-> FALSE]>>

\* the step is a call of UI::event with a press or release of button 1 that
\* the root widget has let pass
PrimaryStep ==
    /\ EventStep
    /\ dispatch'.ev.kind \in ButtonKinds
    /\ dispatch'.ev.num = 1
    /\ Head(dispatch'.calls) = RootPassed

\* C20: no drag is in progress before the first event; a press of button 1
\* that passed the root widget leaves a drag in progress, a release of button 1
\* that passed the root widget leaves none, and every other step (an event of
\* another button or kind, an event the root widget consumed, a call that is
\* not an event) leaves drag_ongoing as it was. So a drag is in progress
\* exactly when the most recent press or release of button 1 that passed the
\* root widget was a press.
C20_DragFollowsPrimaryButton ==
    /\ ~drag_ongoing
    /\ [][IF PrimaryStep
          THEN drag_ongoing' = (dispatch'.ev.kind = "MouseButtonPress")
          ELSE drag_ongoing' = drag_ongoing]_vars

\* a release of button 2 has passed the root widget during a drag, and the drag
\* goes on
C20_Witness ==
    /\ dispatch.ev # <<>>
    /\ dispatch.ev.kind = "MouseButtonRelease"
    /\ dispatch.ev.num = 2
    /\ Head(dispatch.calls) = RootPassed
    /\ drag_ongoing

\* a release of button 1 has passed the root widget and ended the drag
C20_WitnessReleased ==
    /\ dispatch.ev # <<>>
    /\ dispatch.ev.kind = "MouseButtonRelease"
    /\ dispatch.ev.num = 1
    /\ Len(dispatch.calls) >= 2
    /\ Head(dispatch.calls) = RootPassed
    /\ dispatch.calls[2] \in Delivery(widget_under_pointer)
    /\ ~drag_ongoing

-----------------------------------------------------------------------------
(* Dragging *)

\* the step is a call of UI::event with the release of button 1 that ends a
\* drag
DragEndStep == PrimaryStep /\ drag_ongoing /\ ~drag_ongoing'

\* the widget that owns the drag in progress
DragOwner == dispatch.owner[1]

\* C21: while a drag is in progress the widget that owns it, the one under the
\* pointer at the press of button 1 that started it, stays the same whatever
\* events are dispatched, and the release of button 1 that ends the drag goes
\* to that widget right after the root widget.
C21_DragOwnerKept ==
    [][/\ drag_ongoing' => widget_under_pointer' = DragOwner'
       /\ DragEndStep => /\ Len(dispatch'.calls) >= 2
                         /\ dispatch'.calls[2] \in Delivery(DragOwner)]_vars

\* the calls of pointer_leave_wrap and of pointer_enter_wrap on widget id
Leave(id) == [to |-> id, call |-> "pointer_leave_wrap", consumed |-> FALSE]

Enter(id) == [to |-> id, call |-> "pointer_enter_wrap", consumed |-> FALSE]

\* how often the call was made
Count(calls, call) == Cardinality({i \in 1..Len(calls) : calls[i] = call})

\* the deepest widget hit at the position
Deepest(pos) == event_path(0, 1, pos, <<0>>)[Len(event_path(0, 1, pos, <<0>>))]

MovedAway(id) ==
    /\ dispatch'.calls[2].consumed = FALSE
    /\ Deepest(dispatch'.ev.pos) # id

DragOtherStep ==
    /\ EventStep
    /\ drag_ongoing
    /\ dispatch'.ev.kind \in OtherKinds
    /\ Head(dispatch'.calls) = RootPassed

\* C23: during a drag, an event that is neither a key event nor a button
\* event and that the root widget has let pass goes to the widget that owns
\* the drag and to no other widget, whether that widget consumes it or not;
\* widget_under_pointer and the hover flag of every widget stay as they were.
C23_DragOwnerOnly ==
    [][DragOtherStep =>
           /\ Len(dispatch'.calls) = 2
           /\ dispatch'.calls[2] \in Delivery(DragOwner)
           /\ widget_under_pointer' = widget_under_pointer
           /\ \A id \in Ids : widgets'[id].hovered = widgets[id].hovered]_vars

\* what UI::event does: the event goes to the widget under the pointer and to
\* no other widget, without hit test, hover tracking or bubbling
DragBypassesRouting ==
    [][DragOtherStep =>
           /\ Len(dispatch'.calls) = 2
           /\ dispatch'.calls[2] \in Delivery(widget_under_pointer)
           /\ widget_under_pointer' = widget_under_pointer
           /\ drag_ongoing'
           /\ \A id \in Ids : widgets'[id].hovered = widgets[id].hovered]_vars

\* during a drag a pointer-out has gone to the widget under the pointer, a
\* widget in a nested layout that is not hit at the position and has not
\* consumed the event; the widget is hovered as before
DragBypassesRoutingWitness ==
    /\ dispatch.ev # <<>>
    /\ dispatch.ev.kind = "PointerOut"
    /\ drag_ongoing
    /\ widget_under_pointer # 0
    /\ widget_under_pointer \notin Parents(nodes, 0)
    /\ Deepest(dispatch.ev.pos) # widget_under_pointer
    /\ widgets[widget_under_pointer].hovered
    /\ dispatch.calls = <<RootPassed, [to |-> widget_under_pointer, call |-> "event",
                                       consumed |-> FALSE]>>

-----------------------------------------------------------------------------
(* Hit testing and bubbling *)

\* the positions queried: a grid over the window and the space beside it
HitPoints == {<<R(x), R(y)>> : x \in {1, 4, 8}, y \in {1, 4, 8}}

\* the index of the first child of n, in stack order, that is hit at pos; 0 if
\* none is
FirstHit(n, pos) ==
    LET hits == {i \in 1..Len(nodes[n].children) :
                    is_hit_by(widgets[nodes[n].children[i]], pos)}
    IN  IF hits = {} THEN 0 ELSE CHOOSE i \in hits : \A j \in hits : i <= j

\* path is the chain from the root that descends into the first child hit at
\* pos as long as there is one
HitChain(path, pos) ==
    /\ Len(path) >= 1
    /\ path[1] = 0
    /\ \A k \in 2..Len(path) :
           /\ FirstHit(path[k - 1], pos) # 0
           /\ path[k] = nodes[path[k - 1]].children[FirstHit(path[k - 1], pos)]
           /\ is_hit_by(widgets[path[k]], pos)
    /\ FirstHit(path[Len(path)], pos) = 0

\* two children of a node are hit at the same position
OverlappingSiblings ==
    \E n \in Attached, pos \in HitPoints :
        \E i, j \in 1..Len(nodes[n].children) :
            /\ i < j
            /\ is_hit_by(widgets[nodes[n].children[i]], pos)
            /\ is_hit_by(widgets[nodes[n].children[j]], pos)

RoutedStep ==
    /\ EventStep
    /\ Head(dispatch'.calls) = RootPassed
    /\ CASE dispatch'.ev.kind \in KeyKinds ->
                ~drag_ongoing /\ dispatch'.calls[2].consumed = FALSE
          [] dispatch'.ev.kind = "MouseButtonPress" -> TRUE
          [] dispatch'.ev.kind = "MouseButtonRelease" ->
                (dispatch'.ev.num = 1 /\ drag_ongoing) => dispatch'.calls[2].consumed = FALSE
          [] OTHER -> ~drag_ongoing

\* the calls of event() among the calls
Deliveries(calls) == SelectSeq(calls, LAMBDA c : c.call = "event")

\* the calls of event() before the normal routing: on the root widget, and on
\* the widget a key event or the release that ends a drag goes to first
PreRouting ==
    IF \/ dispatch'.ev.kind \in KeyKinds
       \/ dispatch'.ev.kind = "MouseButtonRelease" /\ dispatch'.ev.num = 1 /\ drag_ongoing
    THEN 2 ELSE 1

\* the last n of the calls
LastCalls(calls, n) == SubSeq(calls, Len(calls) - n + 1, Len(calls))

\* calls is the bubbling along path: it starts at the end of the path, moves
\* one widget toward the root with every call, and ends with the first call
\* that consumes the event, or else at the root
Bubbling(calls, path) ==
    /\ Len(calls) >= 1
    /\ Len(calls) <= Len(path)
    /\ \A i \in 1..Len(calls) :
           /\ calls[i].call = "event"
           /\ calls[i].to = path[Len(path) + 1 - i]
           /\ i < Len(calls) => ~calls[i].consumed
    /\ ~calls[Len(calls)].consumed => Len(calls) = Len(path)

\* C25: an event that reaches the normal routing goes to the deepest widget
\* hit at its position first, then to the parent of that widget, and so on
\* toward the root, until a widget consumes it; these are the last calls
\* UI::event makes, and no other widget gets the event in the normal routing.
C25_Bubbling ==
    [][RoutedStep =>
           \A n \in {Len(Deliveries(dispatch'.calls)) - PreRouting} :
               /\ n >= 1
               /\ \A last \in {LastCalls(dispatch'.calls, n)},
                     path \in {event_path(0, 1, dispatch'.ev.pos, <<0>>)} :
                      Bubbling(last, path)]_vars

\* an event has gone to a widget in a nested layout, then to the layout
\* widget and then to the root widget
C25_Witness ==
    /\ dispatch.ev # <<>>
    /\ Len(event_path(0, 1, dispatch.ev.pos, <<0>>)) = 3
    /\ Len(dispatch.calls) >= 4
    /\ Head(dispatch.calls) = RootPassed
    /\ LET path == event_path(0, 1, dispatch.ev.pos, <<0>>)
       IN  LastCalls(dispatch.calls, 3)
               = <<[to |-> path[3], call |-> "event", consumed |-> FALSE],
                   [to |-> path[2], call |-> "event", consumed |-> FALSE],
                   [to |-> 0, call |-> "event", consumed |-> FALSE]>>

\* an event has gone to a widget in a nested layout, which consumed it
C25_WitnessConsumed ==
    /\ dispatch.ev # <<>>
    /\ Len(event_path(0, 1, dispatch.ev.pos, <<0>>)) = 3
    /\ Len(dispatch.calls) >= 2
    /\ Head(dispatch.calls) = RootPassed
    /\ LET path == event_path(0, 1, dispatch.ev.pos, <<0>>)
       IN  /\ LastCalls(dispatch.calls, 1) = <<[to |-> path[3], call |-> "event", consumed |-> TRUE]>>
           /\ Count(dispatch.calls, [to |-> path[3], call |-> "event", consumed |-> TRUE]) = 1
           /\ dispatch.ev.kind = "MouseMove"

-----------------------------------------------------------------------------
(* Hovering *)

\* the calls of pointer_enter_wrap and pointer_leave_wrap among the calls
HoverCalls(calls) == SelectSeq(calls, LAMBDA c : c.call # "event")

\* C26: when an event that is neither a pointer-in nor a pointer-out reaches
\* the normal routing, no widget gets a pointer-enter or a pointer-leave if the
\* deepest widget hit is the widget under the pointer of before; otherwise the
\* widget of before gets one pointer-leave, the deepest widget hit one
\* pointer-enter, and that is all.
C26_HoverEdges ==
    [][(RoutedStep /\ dispatch'.ev.kind \notin {"PointerIn", "PointerOut"}) =>
           \A new \in {Deepest(dispatch'.ev.pos)} :
               HoverCalls(dispatch'.calls)
                   = IF new = widget_under_pointer THEN <<>>
                     ELSE <<Leave(widget_under_pointer), Enter(new)>>]_vars

\* what UI::event does: the hover calls are as C26 says for every event of the
\* normal routing but the release that ends a drag
HoverEdgesButDragEnd ==
    [][(RoutedStep /\ ~DragEndStep /\ dispatch'.ev.kind \notin {"PointerIn", "PointerOut"}) =>
           \A new \in {Deepest(dispatch'.ev.pos)} :
               HoverCalls(dispatch'.calls)
                   = IF new = widget_under_pointer THEN <<>>
                     ELSE <<Leave(widget_under_pointer), Enter(new)>>]_vars

\* the step is a call of UI::event with a pointer-in or pointer-out of the
\* window that reaches the normal routing
WindowStep(kind) == RoutedStep /\ dispatch'.ev.kind = kind

\* C27 as claimed: after a pointer-in that reaches the normal routing the
\* deepest widget hit at its position is hovered; after a pointer-out it is not,
\* and no widget is.
C27_PointerInOutHovers ==
    [][/\ WindowStep("PointerIn") => widgets'[Deepest(dispatch'.ev.pos)].hovered
       /\ WindowStep("PointerOut") => \A id \in Ids : ~widgets'[id].hovered]_vars

\* C27, amended: after a pointer-in that reaches the normal routing the
\* deepest widget hit at its position is hovered unless it is a layout widget,
\* which is never hovered; after a pointer-out no widget is hovered. Either
\* holds also when the widget hit was under the pointer before.
C27_PointerInOut ==
    [][/\ WindowStep("PointerIn") =>
              \A new \in {Deepest(dispatch'.ev.pos)} :
                  /\ widget_under_pointer' = new
                  /\ widgets'[new].hovered = (widgets[new].type # "LayoutWidget")
       /\ WindowStep("PointerOut") => \A id \in Ids : ~widgets'[id].hovered]_vars

\* a pointer-out has come at a position in the widget that was under the
\* pointer and hovered, a widget other than the root: its only hover call is a
\* pointer_leave_wrap, and it is not hovered any more
C27_Witness ==
    /\ dispatch.ev # <<>>
    /\ dispatch.ev.kind = "PointerOut"
    /\ ~drag_ongoing
    /\ widget_under_pointer # 0
    /\ Deepest(dispatch.ev.pos) = widget_under_pointer
    /\ widgets[widget_under_pointer].type # "LayoutWidget"
    /\ HoverCalls(dispatch.calls) = <<Leave(widget_under_pointer)>>
    /\ ~widgets[widget_under_pointer].hovered

\* a pointer-in has come at a position in the widget that was under the
\* pointer and not hovered: it is hovered now
C27_WitnessIn ==
    /\ dispatch.ev # <<>>
    /\ dispatch.ev.kind = "PointerIn"
    /\ ~drag_ongoing
    /\ widget_under_pointer # 0
    /\ HoverCalls(dispatch.calls) = <<Enter(widget_under_pointer)>>
    /\ widgets[widget_under_pointer].hovered

-----------------------------------------------------------------------------
(* The focus cycle *)

\* the widgets that take the focus
Takers == {id \in Ids : kind_takes_focus(widgets[id].type)}

\* how many steps after the focused widget widget id comes in the cyclic order
\* of the identities; the focused widget itself comes last
StepsAfterFocus(id) ==
    IF id > focused_widget THEN id - focused_widget
    ELSE id + Cardinality(Ids) - focused_widget

\* the first widget after the focused one, in the cyclic order, that takes the
\* focus; the focused widget if no other one does
NextTaker ==
    IF Takers \ {focused_widget} = {} THEN focused_widget
    ELSE CHOOSE id \in Takers :
             \A other \in Takers : StepsAfterFocus(id) <= StepsAfterFocus(other)

\* C28: focus_next_widget moves the focus to the first widget that takes the
\* focus, in the cyclic order of the identities of all registered widgets from
\* just after the focused one, and leaves it where it is when no other widget
\* takes the focus; if any widget takes the focus, the focused widget is one
\* that does.
C28_FocusCycle ==
    [][focus_next_widget =>
           /\ focused_widget' = NextTaker
           /\ Takers \ {focused_widget} = {} => focused_widget' = focused_widget
           /\ Takers # {} => focused_widget' \in Takers
           /\ widgets'[focused_widget'].has_focus
           /\ \A id \in Ids \ {focused_widget'} : ~widgets'[id].has_focus]_vars

\* the focus has moved from a pending widget to one with a smaller identity,
\* past the root and a widget that does not take the focus
C28_Witness ==
    /\ Len(dispatch.calls) = 2
    /\ dispatch.calls[1].call = "set_focus(false)"
    /\ dispatch.calls[2].call = "set_focus(true)"
    /\ dispatch.calls[2].to = focused_widget
    /\ dispatch.calls[2].to < dispatch.calls[1].to
    /\ dispatch.calls[2].to > 1
    /\ dispatch.calls[1].to \in unlayouted
    /\ ~kind_takes_focus(widgets[1].type)
    /\ widgets[1].type # "LayoutWidget"

-----------------------------------------------------------------------------
(* Reminders and timers *)

\* the widgets that have asked for a reminder the UI has not taken yet
Requesting == {id \in Ids : widgets[id].reminder_request # <<>>}

\* the calls of start_timer among the calls to the host
Started(calls) == SelectSeq(calls, LAMBDA c : c[1] = "start_timer")

\* C29: next_event starts one timer for every widget that has asked for a
\* reminder since the request was last taken, for the identity of the widget
\* and with the timeout asked for, and takes the request from the widget; it
\* starts no timer for any other widget, so none again for a widget that has
\* not asked again.
C29_ReminderOnce ==
    [][next_event =>
           /\ \A id \in Requesting :
                  Count(view'.calls, <<"start_timer", id, widgets[id].reminder_request[1]>>) = 1
           /\ Len(Started(view'.calls)) = Cardinality(Requesting)
           /\ \A id \in Ids : widgets'[id].reminder_request = <<>>
           /\ \A id \in Requesting : <<id, widgets[id].reminder_request[1]>> \in view'.timers
           /\ \A t \in view'.timers : t[1] \notin Requesting => t \in view.timers]_vars

\* next_event has started the timer of one widget and none for another widget,
\* whose timer it started before with another timeout
C29_Witness ==
    /\ Len(view.calls) = 1
    /\ view.calls[1][1] = "start_timer"
    /\ Cardinality(view.timers) = 2
    /\ Requesting = {}
    /\ \E t \in view.timers : t[1] # view.calls[1][2] /\ t[2] # view.calls[1][3]

\* the step is the timer_event of widget id in which the reminder_handler
\* answers `needed`
TimerStep(id, needed) == dispatch'.calls = <<reminder_handler(id, needed)>> /\ timer_event(id, needed)

\* C30: when the timer of a widget fires, the reminder_handler of that widget
\* is called and that of no other widget; the UI asks the host to stop the
\* timer of that widget if the handler answers false, and makes no call to the
\* host, so that the timer runs on, if it answers true.
C30_TimerEvent ==
    [][\A id \in Ids, needed \in BOOLEAN :
           TimerStep(id, needed) =>
               /\ Len(dispatch'.calls) = 1
               /\ dispatch'.calls[1].to = id
               /\ view'.calls = IF needed THEN <<>> ELSE <<<<"stop_timer", id>>>>
               /\ needed => view'.timers = view.timers
               /\ ~needed => view'.timers = {t \in view.timers : t[1] # id}
               /\ widgets' = widgets]_vars

\* the timers of two widgets ran; one has fired, its widget answered false and
\* the UI has stopped it; the other one runs on
C30_Witness ==
    /\ Len(dispatch.calls) = 1
    /\ dispatch.calls[1].call = "reminder_handler: false"
    /\ view.calls = <<<<"stop_timer", dispatch.calls[1].to>>>>
    /\ Cardinality(view.timers) = 1
    /\ dispatch.calls[1].to \notin Timed

\* a timer has fired, its widget answered true, and it runs on
C30_WitnessNeeded ==
    /\ Len(dispatch.calls) = 1
    /\ dispatch.calls[1].call = "reminder_handler: true"
    /\ view.calls = <<>>
    /\ dispatch.calls[1].to \in Timed

-----------------------------------------------------------------------------
(* The count of sized children *)

\* the stacks whose slack a layout pass would compute: those that hold a spacer
\* or a length-expandable child
Expanding == {n \in Stacks : HasSpacer(n) \/ ExpandableChildren(n) >= 1}

\* C39: in no layout pass of a tree built through the public API does the
\* subtraction sized_widgets - 1 of expandable_length overflow: no build
\* panics with a subtraction overflow and none computes with a wrapped count.
C39_NoUnderflow == overflow_checks = "unobserved"

\* what the code does: the subtraction overflows exactly in the passes that
\* compute the slack of a stack without sized child
C39_UnderflowIffUnsized ==
    Laid =>
        ((overflow_checks # "unobserved") <=>
             \E n \in Expanding : SizedChildren(n) = 0)

-----------------------------------------------------------------------------
(* The cross axis *)

CrossOf(n, c) == cross(Axis(n), widgets[c].layout.size)

CrossExpandable(n, c) == cross_expandable(Axis(n), widgets[c])

\* the cross size a stack has at hand
AvailableCross(n) == cross(Axis(n), widgets[n].layout.size)

\* C32: after phase 2, in every stack with available cross size C and padding
\* p, every cross-expandable child has the cross size C - 2p and every other
\* child its phase-1 cross size.
C32_CrossAxis ==
    Laid =>
        \A n \in Stacks :
            \A k \in 1..Len(nodes[n].subnodes) :
                LET c == StackIds(nodes, n)[k]
                IN  CrossOf(n, c) =
                        IF CrossExpandable(n, c)
                        THEN RSub(AvailableCross(n), RMul(R(2), nodes[n].padding))
                        ELSE Phase1Cross(n, c)

\* a padded stack with cross size to spare holds a cross-expandable child,
\* which is widened, beside a child that is not, which keeps its cross size
C32_Witness ==
    /\ Laid
    /\ \E n \in Stacks :
           /\ RGt(nodes[n].padding, Zero)
           /\ \E k, l \in 1..Len(nodes[n].subnodes) :
                  LET c == StackIds(nodes, n)[k]
                      d == StackIds(nodes, n)[l]
                  IN  /\ CrossExpandable(n, c)
                      /\ RGt(CrossOf(n, c), Phase1Cross(n, c))
                      /\ ~CrossExpandable(n, d)
                      /\ RGt(AvailableCross(n), RAdd(CrossOf(n, d), RMul(R(2), nodes[n].padding)))

-----------------------------------------------------------------------------
(* Locked containers *)

\* the children of container n
ChildrenOf(n) == {nodes[n].children[k] : k \in 1..Len(nodes[n].children)}

\* C33: after a layout pass a container whose width (height) is locked is not
\* width-(height-)expandable and has its phase-1 width (height), whatever its
\* children are and whatever the size its parent has at hand.
C33_LockedKeepsSize ==
    Laid =>
        \A n \in Inner :
            /\ widgets[n].width_locked =>
                   /\ ~widgets[n].width_expandable
                   /\ widgets[n].layout.size[1] = phase1[n][1]
            /\ widgets[n].height_locked =>
                   /\ ~widgets[n].height_expandable
                   /\ widgets[n].layout.size[2] = phase1[n][2]

\* a height-locked container all of whose children are height-expandable, in
\* a parent that is higher than the container: the container was not stretched
C33_Witness ==
    /\ Laid
    /\ \E n \in Inner :
           /\ widgets[n].height_locked
           /\ ChildrenOf(n) # {}
           /\ \A c \in ChildrenOf(n) : widgets[c].height_expandable
           /\ \E p \in Parents(nodes, n) :
                  /\ nodes[p].layouter = "VerticalLayouter"
                  /\ RGt(widgets[p].layout.size[2], widgets[n].layout.size[2])

-----------------------------------------------------------------------------
(* The ordering queue *)

\* the nodes that have a layouter, attached or pending
Layouted == {n \in Ids : nodes[n].layouter # "none"}

\* C34: in every state that has not failed, the ordering queue of every node
\* that has a layouter, attached or pending, is a permutation of the slots
\* 0..n-1 of the n children of the node.
C34_QueuePermutation ==
    Running =>
        \A n \in Layouted :
            /\ Len(nodes[n].subnodes) = Len(nodes[n].children)
            /\ {nodes[n].subnodes[k] : k \in 1..Len(nodes[n].subnodes)} =
                   0..(Len(nodes[n].children) - 1)

\* a pending layouter holds two children, the second of which was packed to
\* the front
C34_Witness ==
    /\ Running
    /\ \E n \in Layouted \cap unlayouted :
           /\ Len(nodes[n].children) = 2
           /\ nodes[n].subnodes = <<1, 0>>

-----------------------------------------------------------------------------
(* Repaints *)

\* has_focus of widget id before the k-th of the calls, ws being the registry
\* before the first
FocusBefore(calls, ws, k, id) ==
    IF \E j \in 1..(k - 1) : calls[j].to = id /\ calls[j].call = "set_focus(true)"
    THEN ~\E j \in 1..(k - 1) :
              /\ calls[j].to = id /\ calls[j].call = "set_focus(false)"
              /\ \A i \in (j + 1)..(k - 1) :
                     ~(calls[i].to = id /\ calls[i].call = "set_focus(true)")
    ELSE /\ ws[id].has_focus
         /\ ~\E j \in 1..(k - 1) : calls[j].to = id /\ calls[j].call = "set_focus(false)"

\* the calls made on widget id, of a registry ws, ask for a repaint: the
\* widget asks itself, the pointer enters or leaves it, or its focus changes
Requested(calls, ws, id) ==
    \E k \in 1..Len(calls) :
        /\ calls[k].to = id
        /\ \/ calls[k].call = "ask_for_repaint"
           \/ /\ calls[k].call \in {"pointer_enter_wrap", "pointer_leave_wrap"}
              /\ ws[id].type # "LayoutWidget"
           \/ calls[k].call = "set_focus(true)" /\ ~FocusBefore(calls, ws, k, id)
           \/ calls[k].call = "set_focus(false)" /\ FocusBefore(calls, ws, k, id)

\* the redraw of widget id that next_event asks the host for
Redraw(id) == <<"post_redisplay_rect", id>>

C31_WitnessAsked ==
    /\ Len(dispatch.calls) = 1
    /\ dispatch.calls[1].call = "ask_for_repaint"
    /\ dispatch.calls[1].to # focused_widget
    /\ ~widgets[dispatch.calls[1].to].hovered
    /\ widgets[dispatch.calls[1].to].needs_repaint

-----------------------------------------------------------------------------
(* The hovered widget *)

Hovered == {id \in Ids : widgets[id].hovered}

\* C35: at most one widget has its hover flag set, and if one has, it is the
\* widget under the pointer of the router.
C35_OneHovered == Hovered \subseteq {widget_under_pointer}

\* after a drag that ended outside its owner and a resize of the window, a
\* widget other than the root is hovered; the pointer has left another one
C35_Witness ==
    /\ view.resized
    /\ Hovered = {widget_under_pointer}
    /\ widget_under_pointer # 0
    /\ ~drag_ongoing
    /\ \E id \in Ids \ {0, widget_under_pointer} : widgets[id].needs_repaint

\* no widget is hovered although the pointer was over one: the pointer has
\* left the window
C35_WitnessNone ==
    /\ Hovered = {}
    /\ dispatch.ev # <<>>
    /\ dispatch.ev.kind = "PointerOut"
    /\ Leave(widget_under_pointer) \in {dispatch.calls[k] : k \in 1..Len(dispatch.calls)}

-----------------------------------------------------------------------------
(* The focused widget *)

Focused == {id \in Ids : widgets[id].has_focus}

\* C36: at most one widget has its focus flag set, and if one has, it is the
\* focused widget of the router; when the focus moves, the widget it moves
\* from has its flag cleared and the widget it moves to has its flag set.
C36_OneFocused ==
    [][/\ Focused \subseteq {focused_widget}
       /\ Focused' \subseteq {focused_widget'}
       /\ focused_widget' # focused_widget =>
              /\ ~widgets'[focused_widget].has_focus
              /\ widgets'[focused_widget'].has_focus]_vars

\* in a window that has the focus, the focus has moved from one widget of the
\* application to another
C36_Witness ==
    /\ have_focus
    /\ Len(dispatch.calls) = 2
    /\ dispatch.calls[1].call = "set_focus(false)"
    /\ dispatch.calls[1].to # 0
    /\ dispatch.calls[2].to # dispatch.calls[1].to
    /\ Focused = {focused_widget}
    /\ focused_widget = dispatch.calls[2].to

\* the window has lost the focus: no widget has its flag set
C36_WitnessOut ==
    /\ ~have_focus
    /\ focused_widget # 0
    /\ Focused = {}
    /\ Len(dispatch.calls) = 1
    /\ dispatch.calls[1].call = "set_focus(false)"

\* C37: the focus flag is set only on widgets that take the focus.
C37_FocusOnlyOnTakers == Focused \subseteq Takers

\* what the code keeps to: a widget that does not take the focus has its flag
\* set only if it is the root
C37_OnlyRootBesideTakers == Focused \subseteq Takers \cup {0}

-----------------------------------------------------------------------------
(* The end of the focus scan *)

\* the number of widgets a focus_next_widget examines in this state
Examined == scan_length(focused_widget, focused_widget, 0)

\* C40: whatever the registry holds and wherever the focus is, the scan of
\* focus_next_widget ends after it has examined at most as many widgets as
\* are registered.
C40_ScanTerminates == Examined <= Cardinality(Ids)

\* focus_next_widget has run with no widget that takes the focus among
\* several registered ones: the focus is where it was, and a scan examines
\* every widget once
C40_Witness ==
    /\ Takers = {}
    /\ Cardinality(Ids) >= 3
    /\ Examined = Cardinality(Ids)
    /\ Len(dispatch.calls) = 2
    /\ dispatch.calls[1].to = focused_widget
    /\ dispatch.calls[2].to = focused_widget

\* focus_next_widget has run with the root as the only widget
C40_WitnessRootOnly ==
    /\ Cardinality(Ids) = 1
    /\ Examined = 1
    /\ Len(dispatch.calls) = 2

-----------------------------------------------------------------------------
(* Deliveries of one event *)

\* how often the event handled last was delivered to widget id
Delivered(id) ==
    Cardinality({k \in 1..Len(dispatch.calls) :
                    dispatch.calls[k].call = "event" /\ dispatch.calls[k].to = id})

\* C38: in the dispatch of one event, the event is delivered to every widget
\* at most once.
C38_DeliveredOnce == \A id \in Ids : Delivered(id) <= 1

\* what the code keeps to: the root receives an event at most three times and
\* every other widget at most twice
C38_DeliveredTwice ==
    /\ Delivered(0) <= 3
    /\ \A id \in Ids \ {0} : Delivered(id) <= 2

====
